---- MODULE Spec2Model ----
(***************************************************************************)
(* A model of the consensus core in src/sia/blocks.go: the block tree, the *)
(* tip view (unspent outputs, open contracts, current path), header        *)
(* validation, retargeting, fork choice and the rewind / re-integrate      *)
(* reorg of State.AcceptBlock.                                             *)
(*                                                                         *)
(* The engine is the record s (the receiver of every method in the         *)
(* source).  Every method is an operator from a state record to a state    *)
(* record; a Go panic (nil dereference, division by zero, the explicit     *)
(* panic of forkBlockchain) sets s.panic and ends the process.             *)
(***************************************************************************)
EXTENDS Integers, Sequences, FiniteSets, TLC

VARIABLES
    s,      \* the State object: BadBlocks, BlockMap, CurrentBlock, CurrentPath,
            \* UnspentOutputs, OpenContracts, Heap (the OpenContract structs the
            \* pointers of OpenContracts and of the undo logs refer to), panic
    now,    \* the wall clock read by validateHeader (time.Now().Unix())
    ret,    \* what the last AcceptBlock call returned, and the path it took
    mu,     \* the mutex embedded in State: its holder, and the State it protected
            \* when it was last released
    calls   \* the AcceptBlock calls in progress, one per calling goroutine: the
            \* position in the code and the local variables

vars == <<s, now, ret, mu, calls>>

---------------------------------------------------------------------------
(* Bounds of the model *)

\* blocks the engine may know (BlockMap and BadBlocks together, genesis included)
MaxKnown == 4
\* the last value of the wall clock
MaxNow == 11
\* blocks the ledger harness may attach, genesis included
MaxLedger == 4
\* integrations the ledger harness may run
MaxIntegrations == 4
\* blocks the engine may know when a concurrent call starts
MaxLockKnown == 4
\* goroutines calling AcceptBlock concurrently
NumCallers == 2

---------------------------------------------------------------------------
(* Constants of the program *)

SurpassThresholdNum == 5
SurpassThresholdDen == 100
CoinInflation == 1000
MedianIndex == 5
RingSize == 11
TargetWindow == 5000
\* declared outside src/: values chosen for the model
BlockFrequency == 2
FutureThreshold == 2
MaxAdjustmentUpNum == 1001
MaxAdjustmentUpDen == 1000
MaxAdjustmentDownNum == 999
MaxAdjustmentDownDen == 1000
RootTarget == 1000
RootDepth == 10000
GenesisTimestamp == 10

---------------------------------------------------------------------------
(* Generic helpers *)

MapPut(f, k, v) == [x \in DOMAIN f \cup {k} |-> IF x = k THEN v ELSE f[x]]
MapDel(f, k) == [x \in DOMAIN f \ {k} |-> f[x]]
Min(a, b) == IF a < b THEN a ELSE b

RECURSIVE SumSeq(_)
SumSeq(q) == IF q = <<>> THEN 0 ELSE Head(q) + SumSeq(Tail(q))

RECURSIVE SeqToSet(_)
SeqToSet(q) == IF q = <<>> THEN {} ELSE {Head(q)} \cup SeqToSet(Tail(q))

\* all orders in which a Go map with key set S may be iterated
RECURSIVE Orders(_)
Orders(S) ==
    IF S = {} THEN {<<>>}
    ELSE UNION {{<<x>> \o o : o \in Orders(S \ {x})} : x \in S}

---------------------------------------------------------------------------
(* Blocks.  A block ID is the hash of the header, so an ID determines the  *)
(* block: the model numbers the blocks so that the number encodes the      *)
(* parent and the contents (Child), and decodes them again (ParentBlock,   *)
(* Timestamp, ...).  HashValue is the magnitude of the 32-byte ID, which   *)
(* is all that checkTarget reads of it.                                    *)

Genesis == 0
\* the zero value of BlockID: the genesis block's parent, and what a Go map of
\* BlockIDs returns for a missing key
ZeroID == 0 - 1

\* what a block can hold: timestamp, magnitude of its hash, whether its
\* MerkleRoot field is the root of its transactions, and its transactions
HeaderChoices ==
    [i \in 1..12 |->
        [ts |-> CASE (i - 1) \div 4 = 0 -> GenesisTimestamp - 1
                  [] (i - 1) \div 4 = 1 -> GenesisTimestamp + 1
                  [] OTHER -> GenesisTimestamp + 3,
         hv |-> IF ((i - 1) \div 2) % 2 = 0 THEN 1 ELSE RootTarget + 1,
         mk |-> (i - 1) % 2 = 0,
         tx |-> "none"]]
TxChoices ==
    << [ts |-> GenesisTimestamp + 1, hv |-> 1, mk |-> TRUE, tx |-> "contract"],
       [ts |-> GenesisTimestamp + 1, hv |-> 1, mk |-> TRUE, tx |-> "bad"],
       [ts |-> GenesisTimestamp + 1, hv |-> 1, mk |-> TRUE, tx |-> "proof"] >>
\* a block stamped with the timestamp of the genesis block, the median of the
\* recent timestamps of the first nodes
MedianChoices ==
    << [ts |-> GenesisTimestamp, hv |-> 1, mk |-> TRUE, tx |-> "none"] >>
ChoiceTable == HeaderChoices \o TxChoices \o MedianChoices
NumChoices == Len(ChoiceTable)

Child(p, c) == p * NumChoices + c
ParentBlock(b) == IF b = Genesis THEN ZeroID ELSE (b - 1) \div NumChoices
ChoiceOf(b) == ChoiceTable[((b - 1) % NumChoices) + 1]

RECURSIVE HeightOf(_)
HeightOf(b) == IF b <= Genesis THEN 0 ELSE 1 + HeightOf(ParentBlock(b))

\* the blocks from b up to genesis
RECURSIVE AncestorsOf(_)
AncestorsOf(b) == IF b <= Genesis THEN {Genesis} ELSE {b} \cup AncestorsOf(ParentBlock(b))
AncestorAt(b, h) == CHOOSE a \in AncestorsOf(b) : HeightOf(a) = h

Timestamp(b) == IF b = Genesis THEN GenesisTimestamp ELSE ChoiceOf(b).ts
HashValue(b) == IF b = Genesis THEN 1 ELSE ChoiceOf(b).hv
MinerAddress(b) == <<"miner", b>>
TxKind(b) == IF b = Genesis THEN "none" ELSE ChoiceOf(b).tx

\* OutputIDs and ContractIDs are derived from their creators
SubsidyID(b) == <<"subsidy", b, 0, 0>>
TxOutputID(b, t, i) == <<"txout", b, t, i>>
StorageProofOutputID(cid, h, ok) == <<"proof", cid, h, IF ok THEN 1 ELSE 0>>
ContractTerminationOutputID(cid, status) == <<"term", cid, IF status THEN 1 ELSE 0, 0>>
ContractIDOf(b) == b

\* the miner fees of the transactions of b, and the value of its miner payout
FeeTotal(b) == IF TxKind(b) \in {"contract", "bad"} THEN 10 ELSE 0
SubsidyValue(b) == CoinInflation + FeeTotal(b)

FileContractOf(b) ==
    [Start |-> HeightOf(b) - 1, End |-> HeightOf(b) + 3,
     ChallengeFrequency |-> 1, Tolerance |-> 2,
     ContractFund |-> 120, MissedProofPayout |-> 50, ValidProofPayout |-> 30,
     MissedProofAddress |-> <<"missed", b>>, ValidProofAddress |-> <<"valid", b>>]

Tx(b, i, ins, outs, fcs, proofs, fees) ==
    [Block |-> b, Index |-> i, Inputs |-> ins, Outputs |-> outs,
     FileContracts |-> fcs, StorageProofs |-> proofs, MinerFees |-> fees]

\* "contract": spend the parent's miner payout into a file contract, change and
\*   a fee.  "bad": a valid spend of the parent's miner payout, then a
\*   transaction spending an output that never exists.  "proof": a storage
\*   proof for the contract the parent block created.
Transactions(b) ==
    LET p == ParentBlock(b) IN
    CASE TxKind(b) = "contract" ->
            << Tx(b, 1, <<SubsidyID(p)>>,
                  << [Value |-> SubsidyValue(p) - FileContractOf(b).ContractFund - 10,
                      SpendHash |-> <<"change", b>>] >>,
                  <<FileContractOf(b)>>, <<>>, <<10>>) >>
      [] TxKind(b) = "bad" ->
            << Tx(b, 1, <<SubsidyID(p)>>,
                  << [Value |-> SubsidyValue(p) - 10, SpendHash |-> <<"change", b>>] >>,
                  <<>>, <<>>, <<10>>),
               Tx(b, 2, <<TxOutputID(b, 0, 0)>>,
                  << [Value |-> 1, SpendHash |-> <<"change", b>>] >>,
                  <<>>, <<>>, <<>>) >>
      [] TxKind(b) = "proof" ->
            << Tx(b, 1, <<>>, <<>>, <<>>, <<ContractIDOf(p)>>, <<>>) >>
      [] OTHER -> <<>>

\* Block.expectedTransactionMerkleRoot: the root over the hashes of the encoded
\* transactions, in order (hash and Merkle root are injective in the model)
expectedTransactionMerkleRoot(b) == <<"root", Transactions(b)>>
MerkleRoot(b) ==
    IF b = Genesis \/ ChoiceOf(b).mk THEN <<"root", Transactions(b)>>
    ELSE <<"root", Append(Transactions(b), Tx(b, 0, <<>>, <<>>, <<>>, <<>>, <<>>))>>

---------------------------------------------------------------------------
(* The State object and its accessors *)

NoErr == "nil"
ErrKnownInvalid == "block is known to be invalid"
ErrAlreadyKnown == "Block exists in block map."
ErrOrphan == "Block is an orphan"
ErrFuture == "timestamp too far in future"
ErrEarly == "timestamp invalid for being in the past"
ErrMerkle == "merkle root does not match transactions sent."
ErrTarget == "block does not meet target"
ErrInvalidTransaction == "invalid transaction"

Panic(st) == [st EXCEPT !.panic = TRUE]

\* a Go map read: the zero value for a missing key
PathAt(st, h) == IF h \in DOMAIN st.CurrentPath THEN st.CurrentPath[h] ELSE ZeroID
Known(st, id) == id \in DOMAIN st.BlockMap

\* s.currentBlockNode(), s.Height(), s.Depth(), s.currentBlockWeight() and
\* s.blockAtHeight() read the node of s.CurrentBlock; they dereference nil
\* (NilTip) when CurrentBlock is not in BlockMap
NilTip(st) == ~Known(st, st.CurrentBlock)
currentBlockNode(st) == st.BlockMap[st.CurrentBlock]
Height(st) == currentBlockNode(st).Height
Depth(st) == currentBlockNode(st).Depth
CurrentTarget(st) == currentBlockNode(st).Target

\* the OpenContract struct a contract ID points to
ContractAt(st, cid) == st.Heap[st.OpenContracts[cid]]
\* the open contracts by value
OpenContractsView(st) == [cid \in DOMAIN st.OpenContracts |-> ContractAt(st, cid)]
\* the tip view of the engine
TipView(st) ==
    [CurrentBlock |-> st.CurrentBlock, CurrentPath |-> st.CurrentPath,
     UnspentOutputs |-> st.UnspentOutputs, OpenContracts |-> OpenContractsView(st)]

\* a fresh address for a new OpenContract struct
NewAddr(st) ==
    CHOOSE a \in 1..(Cardinality(DOMAIN st.Heap) + 1) : a \notin DOMAIN st.Heap

\* the structs still referenced from OpenContracts or from an undo log
Reachable(st) ==
    {st.OpenContracts[cid] : cid \in DOMAIN st.OpenContracts}
    \cup UNION {SeqToSet(st.BlockMap[id].ContractTerminations) : id \in DOMAIN st.BlockMap}
\* Go's garbage collector
Collect(st) == [st EXCEPT !.Heap = [a \in DOMAIN st.Heap \cap Reachable(st) |-> st.Heap[a]]]

---------------------------------------------------------------------------
(* Transactions: validTransaction, applyTransaction and reverseTransaction *)
(* are called by blocks.go and defined elsewhere; they are modelled from   *)
(* section 4.4 of the specification: apply consumes the inputs, creates    *)
(* the outputs and the open contracts and credits storage proofs; reverse  *)
(* is the exact inverse.                                                   *)

\* the output an OutputID of a miner payout denotes
CreatedOutput(oid) == [Value |-> SubsidyValue(oid[2]), SpendHash |-> MinerAddress(oid[2])]

InputValue(st, t) ==
    SumSeq([k \in 1..Len(t.Inputs) |-> st.UnspentOutputs[t.Inputs[k]].Value])
OutputValue(t) ==
    SumSeq([k \in 1..Len(t.Outputs) |-> t.Outputs[k].Value])
    + SumSeq(t.MinerFees)
    + SumSeq([k \in 1..Len(t.FileContracts) |-> t.FileContracts[k].ContractFund])

validTransaction(st, t) ==
    /\ \A k \in 1..Len(t.Inputs) : t.Inputs[k] \in DOMAIN st.UnspentOutputs
    /\ \A k, l \in 1..Len(t.Inputs) : k # l => t.Inputs[k] # t.Inputs[l]
    /\ InputValue(st, t) = OutputValue(t)
    /\ \A k \in 1..Len(t.FileContracts) : t.FileContracts[k].ChallengeFrequency > 0
    /\ \A k \in 1..Len(t.StorageProofs) :
          /\ t.StorageProofs[k] \in DOMAIN st.OpenContracts
          /\ ~ContractAt(st, t.StorageProofs[k]).WindowSatisfied

\* a transaction of the model creates at most one contract and proves at most one
applyTransaction(st, t) ==
    LET ins == SeqToSet(t.Inputs)
        u1 == [o \in DOMAIN st.UnspentOutputs \ ins |-> st.UnspentOutputs[o]]
        new == {TxOutputID(t.Block, t.Index, k) : k \in 1..Len(t.Outputs)}
        u2 == [o \in DOMAIN u1 \cup new |->
                 IF o \in new THEN t.Outputs[o[4]] ELSE u1[o]]
        s2 == [st EXCEPT !.UnspentOutputs = u2]
        s3 == IF t.FileContracts = <<>> THEN s2
              ELSE LET a == NewAddr(s2)
                       cid == ContractIDOf(t.Block)
                   IN [s2 EXCEPT
                        !.Heap = MapPut(s2.Heap, a,
                            [FileContract |-> t.FileContracts[1], ContractID |-> cid,
                             FundsRemaining |-> t.FileContracts[1].ContractFund,
                             Failures |-> 0, WindowSatisfied |-> FALSE]),
                        !.OpenContracts = MapPut(s2.OpenContracts, cid, a)]
    IN  IF t.StorageProofs = <<>> THEN s3
        ELSE LET cid == t.StorageProofs[1]
                 a == s3.OpenContracts[cid]
                 oc == s3.Heap[a]
                 payout == Min(oc.FileContract.ValidProofPayout, oc.FundsRemaining)
             IN [s3 EXCEPT
                  !.UnspentOutputs = MapPut(s3.UnspentOutputs,
                      StorageProofOutputID(cid, HeightOf(t.Block), TRUE),
                      [Value |-> payout, SpendHash |-> oc.FileContract.ValidProofAddress]),
                  !.Heap[a].FundsRemaining = oc.FundsRemaining - payout,
                  !.Heap[a].WindowSatisfied = TRUE]

reverseTransaction(st, t) ==
    LET s1 == IF t.StorageProofs = <<>> THEN st
              ELSE LET cid == t.StorageProofs[1]
                       oid == StorageProofOutputID(cid, HeightOf(t.Block), TRUE)
                   IN IF cid \notin DOMAIN st.OpenContracts THEN Panic(st)
                      ELSE LET a == st.OpenContracts[cid]
                               v == IF oid \in DOMAIN st.UnspentOutputs
                                    THEN st.UnspentOutputs[oid].Value ELSE 0
                           IN [st EXCEPT
                                !.UnspentOutputs = MapDel(st.UnspentOutputs, oid),
                                !.Heap[a].FundsRemaining = st.Heap[a].FundsRemaining + v,
                                !.Heap[a].WindowSatisfied = FALSE]
        s2 == IF t.FileContracts = <<>> THEN s1
              ELSE [s1 EXCEPT !.OpenContracts = MapDel(s1.OpenContracts, ContractIDOf(t.Block))]
        new == {TxOutputID(t.Block, t.Index, k) : k \in 1..Len(t.Outputs)}
        ins == SeqToSet(t.Inputs)
        u1 == [o \in DOMAIN s2.UnspentOutputs \ new |-> s2.UnspentOutputs[o]]
        u2 == [o \in DOMAIN u1 \cup ins |-> IF o \in ins THEN CreatedOutput(o) ELSE u1[o]]
    IN  [s2 EXCEPT !.UnspentOutputs = u2]

\* reverse the transactions q[1..n] in reverse order
RECURSIVE reverseTransactions(_, _, _)
reverseTransactions(st, q, n) ==
    IF n = 0 THEN st ELSE reverseTransactions(reverseTransaction(st, q[n]), q, n - 1)

---------------------------------------------------------------------------
(* Deduplication and header validation *)

\* checkMaps without the BadBlocks lookup
checkMapsForgetful(st, b) ==
    IF Known(st, b) THEN ErrAlreadyKnown
    ELSE IF ~Known(st, ParentBlock(b)) THEN ErrOrphan
    ELSE NoErr

\* checkMaps looking for the parent first
checkMapsParentFirst(st, b) ==
    IF ~Known(st, ParentBlock(b)) THEN ErrOrphan
    ELSE IF b \in st.BadBlocks THEN ErrKnownInvalid
    ELSE IF Known(st, b) THEN ErrAlreadyKnown
    ELSE NoErr

\* State.checkMaps: the error, or NoErr when the parent node is known
checkMaps(st, b) ==
    IF b \in st.BadBlocks THEN ErrKnownInvalid
    ELSE IF Known(st, b) THEN ErrAlreadyKnown
    ELSE IF ~Known(st, ParentBlock(b)) THEN ErrOrphan
    ELSE NoErr

\* Block.checkTarget: bytes.Compare(target, id) >= 0
checkTarget(b, target) == target >= HashValue(b)

\* sort.Ints
RECURSIVE Insert(_, _)
Insert(x, q) ==
    IF q = <<>> THEN <<x>>
    ELSE IF x <= Head(q) THEN <<x>> \o q
    ELSE <<Head(q)>> \o Insert(x, Tail(q))
RECURSIVE SortInts(_)
SortInts(q) == IF q = <<>> THEN <<>> ELSE Insert(Head(q), SortInts(Tail(q)))

\* intTimestamps[5] of the sorted ring (Go indexes from 0)
MedianTimestamp(ring) == SortInts(ring)[MedianIndex + 1]

\* validateHeader marking a block that misses its target as bad
validateHeaderTargetBad(st, parent, b, clock) ==
    IF Timestamp(b) - clock > FutureThreshold
    THEN [st |-> st, err |-> ErrFuture]
    ELSE IF MedianTimestamp(parent.RecentTimestamps) > Timestamp(b)
    THEN [st |-> [st EXCEPT !.BadBlocks = @ \cup {b}], err |-> ErrEarly]
    ELSE IF MerkleRoot(b) # expectedTransactionMerkleRoot(b)
    THEN [st |-> [st EXCEPT !.BadBlocks = @ \cup {b}], err |-> ErrMerkle]
    ELSE IF ~(parent.Target >= HashValue(b))
    THEN [st |-> [st EXCEPT !.BadBlocks = @ \cup {b}], err |-> ErrTarget]
    ELSE [st |-> st, err |-> NoErr]

\* validateHeader marking a block from the future as bad
validateHeaderFutureBad(st, parent, b, clock) ==
    IF Timestamp(b) - clock > FutureThreshold
    THEN [st |-> [st EXCEPT !.BadBlocks = @ \cup {b}], err |-> ErrFuture]
    ELSE IF MedianTimestamp(parent.RecentTimestamps) > Timestamp(b)
    THEN [st |-> [st EXCEPT !.BadBlocks = @ \cup {b}], err |-> ErrEarly]
    ELSE IF MerkleRoot(b) # expectedTransactionMerkleRoot(b)
    THEN [st |-> [st EXCEPT !.BadBlocks = @ \cup {b}], err |-> ErrMerkle]
    ELSE IF ~(parent.Target >= HashValue(b))
    THEN [st |-> st, err |-> ErrTarget]
    ELSE [st |-> st, err |-> NoErr]

\* State.validateHeader: the state (BadBlocks may grow) and the error
validateHeader(st, parent, b, clock) ==
    IF Timestamp(b) - clock > FutureThreshold
    THEN [st |-> st, err |-> ErrFuture]
    ELSE IF MedianTimestamp(parent.RecentTimestamps) > Timestamp(b)
    THEN [st |-> [st EXCEPT !.BadBlocks = @ \cup {b}], err |-> ErrEarly]
    ELSE IF MerkleRoot(b) # expectedTransactionMerkleRoot(b)
    THEN [st |-> [st EXCEPT !.BadBlocks = @ \cup {b}], err |-> ErrMerkle]
    ELSE IF ~checkTarget(b, parent.Target)
    THEN [st |-> st, err |-> ErrTarget]
    ELSE [st |-> st, err |-> NoErr]

---------------------------------------------------------------------------
(* Retarget and the block tree *)

\* s.blockAtHeight(h): the block of the node CurrentPath[h] names (nil when the
\* path has no such entry)
NilAtHeight(st, h) == ~Known(st, PathAt(st, h))
blockAtHeight(st, h) == st.BlockMap[PathAt(st, h)].Block

\* the rational a/b clamped to [MaxAdjustmentDown, MaxAdjustmentUp], for b > 0
ClampAdjustment(a, b) ==
    IF a * MaxAdjustmentUpDen > MaxAdjustmentUpNum * b
    THEN [num |-> MaxAdjustmentUpNum, den |-> MaxAdjustmentUpDen]
    ELSE IF a * MaxAdjustmentDownDen < MaxAdjustmentDownNum * b
    THEN [num |-> MaxAdjustmentDownNum, den |-> MaxAdjustmentDownDen]
    ELSE [num |-> a, den |-> b]

\* the largest value of the Target field: 32 bytes in the source, 10 bits here
MaxTarget == 1023

\* childTarget from the adjustment on: big.NewRat panics on a zero
\* denominator, and copy(target[offset:], ...) on a negative offset, which is
\* what a new target longer than the field gives
retarget(oldTarget, timePassed, expectedTimePassed) ==
    IF expectedTimePassed = 0 THEN [target |-> 0, panic |-> TRUE]
    ELSE LET adj == ClampAdjustment(timePassed, expectedTimePassed)
             newTarget == (oldTarget * adj.num) \div adj.den
         IN  IF newTarget > MaxTarget
             THEN [target |-> 0, panic |-> TRUE]
             ELSE [target |-> newTarget, panic |-> FALSE]

\* State.childTarget: [target, panic]
childTarget(st, parentNode, newNode) ==
    LET early == newNode.Height < TargetWindow
        nilAdj == ~early /\ NilAtHeight(st, newNode.Height - TargetWindow)
        timePassed ==
            IF early THEN Timestamp(newNode.Block) - Timestamp(Genesis)
            ELSE Timestamp(newNode.Block)
                 - Timestamp(blockAtHeight(st, newNode.Height - TargetWindow))
        expectedTimePassed ==
            IF early THEN BlockFrequency * newNode.Height
            ELSE BlockFrequency * TargetWindow
    IN  IF nilAdj THEN [target |-> 0, panic |-> TRUE]
        ELSE retarget(parentNode.Target, timePassed, expectedTimePassed)

\* State.childDepth: [depth, panic]; 1/depth is the work of the chain, and
\* big.Rat.SetFrac panics on a zero denominator
childDepthNoWeight(parentNode) ==
    IF parentNode.Target = 0 \/ parentNode.Depth = 0 THEN [depth |-> 0, panic |-> TRUE]
    ELSE [depth |-> parentNode.Depth, panic |-> FALSE]

childDepth(parentNode) ==
    IF parentNode.Target = 0 \/ parentNode.Depth = 0 THEN [depth |-> 0, panic |-> TRUE]
    ELSE [depth |-> (parentNode.Depth * parentNode.Target)
                    \div (parentNode.Depth + parentNode.Target),
          panic |-> FALSE]

\* State.addBlockToTree
addBlockToTree(st, parentNode, b) ==
    LET node0 == [Block |-> b, Height |-> parentNode.Height + 1,
                  RecentTimestamps |->
                      Append(Tail(parentNode.RecentTimestamps), Timestamp(b)),
                  Children |-> <<>>, ContractTerminations |-> <<>>,
                  MissedStorageProofs |-> <<>>]
        tg == childTarget(st, parentNode, node0)
        dp == childDepth(parentNode)
        newNode == node0 @@ [Target |-> tg.target, Depth |-> dp.depth]
        p == parentNode.Block
    IN  IF tg.panic \/ dp.panic THEN Panic(st)
        ELSE [st EXCEPT !.BlockMap =
                [id \in DOMAIN st.BlockMap \cup {b} |->
                    IF id = b THEN newNode
                    ELSE IF id = p
                    THEN [st.BlockMap[p] EXCEPT !.Children = Append(@, b)]
                    ELSE st.BlockMap[id]]]

---------------------------------------------------------------------------
(* Fork choice *)

\* a fork choice that always switches
heavierForkAlways(st, newNode) == TRUE

\* a fork choice that compares the Depth fields and has no threshold
heavierForkNoThreshold(st, newNode) == newNode.Depth <= Depth(st)

\* a fork choice that asks for twice the work of the tip
heavierForkTwice(st, newNode) == 2 * newNode.Depth < Depth(st)

\* State.heavierFork: 1/newNode.Depth > 1/s.Depth() + SurpassThreshold/Target,
\* with the positive denominators multiplied out
heavierFork(st, newNode) ==
    SurpassThresholdDen * Depth(st) * CurrentTarget(st)
        > newNode.Depth * (SurpassThresholdDen * CurrentTarget(st)
                           + SurpassThresholdNum * Depth(st))
\* the big.Rat divisions of heavierFork panic on a zero Target or Depth
heavierForkPanics(st, newNode) ==
    NilTip(st) \/ CurrentTarget(st) = 0 \/ Depth(st) = 0 \/ newNode.Depth = 0

---------------------------------------------------------------------------
(* Rewinding and integrating a block *)

\* rewindABlock, first loop: reopen the contracts the undo log names (the log
\* holds pointers to the structs) and delete their termination outputs
RECURSIVE reopenContracts(_, _)
reopenContracts(st, q) ==
    IF q = <<>> THEN st
    ELSE LET oc == st.Heap[Head(q)]
             status == oc.Failures = oc.FileContract.Tolerance
         IN reopenContracts(
               [st EXCEPT
                 !.OpenContracts = MapPut(st.OpenContracts, oc.ContractID, Head(q)),
                 !.UnspentOutputs = MapDel(st.UnspentOutputs,
                     ContractTerminationOutputID(oc.ContractID, status))],
               Tail(q))

\* rewindABlock, second loop: take back the missed-proof outputs; the read of a
\* missing output gives the zero Output, the write through a missing contract
\* dereferences nil
RECURSIVE reverseMissedProofs(_, _)
reverseMissedProofs(st, q) ==
    IF q = <<>> \/ st.panic THEN st
    ELSE LET mp == Head(q) IN
         IF mp.ContractID \notin DOMAIN st.OpenContracts THEN Panic(st)
         ELSE LET a == st.OpenContracts[mp.ContractID]
                  v == IF mp.OutputID \in DOMAIN st.UnspentOutputs
                       THEN st.UnspentOutputs[mp.OutputID].Value ELSE 0
              IN reverseMissedProofs(
                    [st EXCEPT
                      !.Heap[a].FundsRemaining = @ + v,
                      !.Heap[a].Failures = @ - 1,
                      !.UnspentOutputs = MapDel(st.UnspentOutputs, mp.OutputID)],
                    Tail(q))

\* rewindABlock, the end: CurrentBlock moves to the parent, then the entry of
\* s.Height(), which now is the parent's height, is deleted from CurrentPath
rewindPath(st) ==
    LET s1 == [st EXCEPT !.CurrentBlock = ParentBlock(st.CurrentBlock)]
    IN  IF NilTip(s1) THEN Panic(s1)
        ELSE [s1 EXCEPT !.CurrentPath = MapDel(s1.CurrentPath, Height(s1))]

\* State.rewindABlock
rewindABlock(st) ==
    IF st.panic \/ NilTip(st) THEN Panic(st)
    ELSE LET node == currentBlockNode(st)
             s1 == reopenContracts(st, node.ContractTerminations)
             s2 == reverseMissedProofs(s1, node.MissedStorageProofs)
             txs == Transactions(st.CurrentBlock)
             s3 == IF s2.panic THEN s2 ELSE reverseTransactions(s2, txs, Len(txs))
         IN  IF s3.panic THEN s3 ELSE rewindPath(s3)

\* integrateBlock, the transaction loop from transaction k on: the state, the
\* error, the number of transactions applied and the miner fees collected
RECURSIVE applyTransactions(_, _, _, _)
applyTransactions(st, q, k, fees) ==
    IF k > Len(q) THEN [st |-> st, err |-> NoErr, applied |-> k - 1, fees |-> fees]
    ELSE IF ~validTransaction(st, q[k])
    THEN [st |-> st, err |-> ErrInvalidTransaction, applied |-> k - 1, fees |-> fees]
    ELSE applyTransactions(applyTransaction(st, q[k]), q, k + 1,
                           fees + SumSeq(q[k].MinerFees))

\* integrateBlock, the window check of one open contract.  s.Height() and
\* s.currentBlockNode() are read before CurrentBlock is updated.  The unsigned
\* subtraction cannot wrap where it matters: the condition asks Height > Start.
maintainWindow(st, cid) ==
    LET a == st.OpenContracts[cid]
        oc == st.Heap[a]
        fc == oc.FileContract
        h == Height(st)
    IN  IF ~((h - fc.Start) % fc.ChallengeFrequency = 0 /\ h > fc.Start) THEN st
        ELSE IF oc.WindowSatisfied
        THEN [st EXCEPT !.Heap[a].WindowSatisfied = FALSE]
        ELSE LET payout == Min(fc.MissedProofPayout, oc.FundsRemaining)
                 newOutputID == StorageProofOutputID(cid, h, FALSE)
             IN [st EXCEPT
                  !.UnspentOutputs = MapPut(st.UnspentOutputs, newOutputID,
                      [Value |-> payout, SpendHash |-> fc.MissedProofAddress]),
                  !.BlockMap[st.CurrentBlock].MissedStorageProofs =
                      Append(@, [OutputID |-> newOutputID, ContractID |-> cid]),
                  !.Heap[a].FundsRemaining = oc.FundsRemaining - payout,
                  !.Heap[a].Failures = oc.Failures + 1,
                  !.Heap[a].WindowSatisfied = FALSE]

\* integrateBlock, the termination check of one open contract
Terminates(st, cid) ==
    LET oc == ContractAt(st, cid) IN
    \/ oc.FundsRemaining = 0
    \/ oc.FileContract.End = Height(st)
    \/ oc.FileContract.Tolerance = oc.Failures

terminateContract(st, cid) ==
    LET a == st.OpenContracts[cid]
        oc == st.Heap[a]
        fc == oc.FileContract
        contractStatus == oc.Failures = fc.Tolerance
        s1 == IF oc.FundsRemaining = 0 THEN st
              ELSE [st EXCEPT !.UnspentOutputs = MapPut(st.UnspentOutputs,
                        ContractTerminationOutputID(cid, contractStatus),
                        [Value |-> oc.FundsRemaining,
                         SpendHash |-> IF fc.Tolerance = oc.Failures
                                       THEN fc.MissedProofAddress
                                       ELSE fc.ValidProofAddress])]
    IN  [s1 EXCEPT !.BlockMap[st.CurrentBlock].ContractTerminations = Append(@, a)]

\* integrateBlock, the maintenance loop over OpenContracts in the order the map
\* is iterated; done collects contractsToDelete
RECURSIVE maintainContracts(_, _, _)
maintainContracts(st, order, done) ==
    IF st.panic THEN st
    ELSE IF order = <<>>
    THEN [st EXCEPT !.OpenContracts =
            [cid \in DOMAIN st.OpenContracts \ done |-> st.OpenContracts[cid]]]
    ELSE IF NilTip(st) THEN Panic(st)
    ELSE LET cid == Head(order)
             s1 == maintainWindow(st, cid)
         IN IF Terminates(s1, cid)
            THEN maintainContracts(terminateContract(s1, cid), Tail(order), done \cup {cid})
            ELSE maintainContracts(s1, Tail(order), done)

\* a miner payout without the coin inflation
payMinerFeesOnly(st, b, minerSubsidy) ==
    IF ~Known(st, b) THEN Panic(st)
    ELSE [st EXCEPT
           !.UnspentOutputs = MapPut(st.UnspentOutputs, SubsidyID(b),
               [Value |-> minerSubsidy, SpendHash |-> MinerAddress(b)]),
           !.CurrentBlock = b,
           !.CurrentPath = MapPut(st.CurrentPath, st.BlockMap[b].Height, b)]

\* integrateBlock, the end: the miner payout, CurrentBlock and CurrentPath
payMiner(st, b, minerSubsidy) ==
    IF ~Known(st, b) THEN Panic(st)
    ELSE [st EXCEPT
           !.UnspentOutputs = MapPut(st.UnspentOutputs, SubsidyID(b),
               [Value |-> minerSubsidy + CoinInflation, SpendHash |-> MinerAddress(b)]),
           !.CurrentBlock = b,
           !.CurrentPath = MapPut(st.CurrentPath, st.BlockMap[b].Height, b)]

\* an integrateBlock that enters the block into CurrentPath before it validates
\* the transactions
integrateBlockPathFirst(st, b, order) ==
    LET txs == Transactions(b)
        s0 == [st EXCEPT !.CurrentPath = MapPut(st.CurrentPath, HeightOf(b), b)]
        r == applyTransactions(s0, txs, 1, 0)
    IN  IF r.err # NoErr
        THEN [st |-> reverseTransactions(
                        [r.st EXCEPT !.BadBlocks = @ \cup {b}], txs, r.applied),
              err |-> r.err]
        ELSE [st |-> LET s1 == maintainContracts(r.st, order, {})
                     IN IF s1.panic THEN s1 ELSE payMiner(s1, b, r.fees),
              err |-> NoErr]

\* State.integrateBlock with the open contracts iterated in the given order
integrateBlock(st, b, order) ==
    LET txs == Transactions(b)
        r == applyTransactions(st, txs, 1, 0)
    IN  IF r.err # NoErr
        THEN [st |-> reverseTransactions(
                        [r.st EXCEPT !.BadBlocks = @ \cup {b}], txs, r.applied),
              err |-> r.err]
        ELSE [st |-> LET s1 == maintainContracts(r.st, order, {})
                     IN IF s1.panic THEN s1 ELSE payMiner(s1, b, r.fees),
              err |-> NoErr]

\* the results integrateBlock can have: one per iteration order of OpenContracts
\* (the transactions of the model never change the set of keys they are valid on
\* in a way the order could see: the order is drawn after they are applied)
integrateOutcomes(st, b) ==
    LET r == applyTransactions(st, Transactions(b), 1, 0)
    IN  IF r.err # NoErr THEN {integrateBlock(st, b, <<>>)}
        ELSE {integrateBlock(st, b, o) : o \in Orders(DOMAIN r.st.OpenContracts)}

---------------------------------------------------------------------------
(* Reorganisation *)

\* an invalidateNode that marks the node bad and leaves it in BlockMap
invalidateNodeMarkOnly(st, id) ==
    [st EXCEPT !.BadBlocks = @ \cup {id}]

\* an invalidateNode that does not descend into the children
invalidateNodeAlone(st, id) ==
    [st EXCEPT !.BlockMap = MapDel(st.BlockMap, id), !.BadBlocks = @ \cup {id}]

\* State.invalidateNode: the subtree of id, children first.  A child that is no
\* longer in BlockMap was invalidated with its whole subtree before: walking it
\* again changes nothing.
RECURSIVE invalidateNode(_, _)
RECURSIVE invalidateChildren(_, _)
invalidateChildren(st, q) ==
    IF q = <<>> THEN st
    ELSE invalidateChildren(
            IF Known(st, Head(q)) THEN invalidateNode(st, Head(q)) ELSE st, Tail(q))
invalidateNode(st, id) ==
    LET s1 == invalidateChildren(st, st.BlockMap[id].Children)
    IN  [s1 EXCEPT !.BlockMap = MapDel(s1.BlockMap, id),
                   !.BadBlocks = @ \cup {id}]

\* forkBlockchain, first loop: walk up from the new node to the node CurrentPath
\* holds at its height, collecting parentHistory
RECURSIVE findCommonParent(_, _, _)
findCommonParent(st, id, parentHistory) ==
    IF ~Known(st, id) THEN [panic |-> TRUE, node |-> id, parentHistory |-> parentHistory]
    ELSE IF PathAt(st, st.BlockMap[id].Height) = id
    THEN [panic |-> FALSE, node |-> id, parentHistory |-> parentHistory]
    ELSE findCommonParent(st, ParentBlock(id), Append(parentHistory, id))

\* forkBlockchain, second loop: rewind until CurrentBlock is the common parent
RECURSIVE rewindTo(_, _, _)
rewindTo(st, id, rewoundBlocks) ==
    IF st.panic \/ st.CurrentBlock = id THEN [st |-> st, rewoundBlocks |-> rewoundBlocks]
    ELSE rewindTo(rewindABlock(st), id, Append(rewoundBlocks, st.CurrentBlock))

RECURSIVE rewindTimes(_, _)
rewindTimes(st, n) == IF n = 0 \/ st.panic THEN st ELSE rewindTimes(rewindABlock(st), n - 1)

\* a restoration that leaves the rewound blocks out
restoreNothing(st, rewoundBlocks, i, err) == {[st |-> st, err |-> err]}

\* forkBlockchain, the restoration: integrate rewoundBlocks[1..i] from the last
\* to the first; err is assigned by every integration, and an error panics
RECURSIVE restoreBlocks(_, _, _, _)
restoreBlocks(st, rewoundBlocks, i, err) ==
    IF st.panic \/ i = 0 THEN {[st |-> st, err |-> err]}
    ELSE IF ~Known(st, rewoundBlocks[i]) THEN {[st |-> Panic(st), err |-> err]}
    ELSE UNION { IF r.err # NoErr THEN {[st |-> Panic(r.st), err |-> r.err]}
                 ELSE restoreBlocks(r.st, rewoundBlocks, i - 1, r.err)
                 : r \in integrateOutcomes(st, rewoundBlocks[i]) }

\* forkBlockchain, third loop, from parentHistory[i] down to parentHistory[1]
RECURSIVE integrateFork(_, _, _, _, _)
integrateFork(st, parentHistory, rewoundBlocks, i, validatedBlocks) ==
    LET out(x, e, f) == [st |-> x, err |-> e, firstErr |-> f,
                         rewound |-> Len(rewoundBlocks), validated |-> validatedBlocks]
    IN
    IF st.panic \/ i = 0 THEN {out(st, NoErr, NoErr)}
    ELSE IF ~Known(st, parentHistory[i]) THEN {out(Panic(st), NoErr, NoErr)}
    ELSE UNION {
        IF r.st.panic THEN {out(r.st, r.err, r.err)}
        ELSE IF r.err # NoErr
        THEN LET s1 == invalidateNode(r.st, parentHistory[i])
                 s2 == rewindTimes(s1, validatedBlocks)
             IN {out(x.st, x.err, r.err)
                    : x \in restoreBlocks(s2, rewoundBlocks, Len(rewoundBlocks), r.err)}
        ELSE integrateFork(r.st, parentHistory, rewoundBlocks, i - 1, validatedBlocks + 1)
        : r \in integrateOutcomes(st, parentHistory[i]) }

\* State.forkBlockchain: the results it can have
forkBlockchain(st, newNode) ==
    LET f == findCommonParent(st, newNode, <<>>)
        w == rewindTo(st, f.node, <<>>)
    IN  IF f.panic
        THEN {[st |-> Panic(st), err |-> NoErr, firstErr |-> NoErr,
               rewound |-> 0, validated |-> 0]}
        ELSE integrateFork(w.st, f.parentHistory, w.rewoundBlocks,
                           Len(f.parentHistory), 0)

---------------------------------------------------------------------------
(* The entry point *)

Returned(st, attached, err, firstErr, forked, rewound, validated) ==
    [st |-> st,
     ret |-> [attached |-> attached, err |-> err, firstErr |-> firstErr,
              forked |-> forked, rewound |-> rewound, validated |-> validated,
              broadcast |-> err = NoErr /\ ~st.panic]]

\* State.AcceptBlock under the state lock: the results the call can have.
\* attached is the block when addBlockToTree ran, ZeroID otherwise; broadcast
\* tells whether the call reached s.Server.Broadcast.
acceptBlock(st, b, clock) ==
    LET e1 == checkMaps(st, b) IN
    IF e1 # NoErr THEN {Returned(st, ZeroID, e1, NoErr, FALSE, 0, 0)}
    ELSE
    LET parentBlockNode == st.BlockMap[ParentBlock(b)]
        v == validateHeader(st, parentBlockNode, b, clock)
    IN
    IF v.err # NoErr THEN {Returned(v.st, ZeroID, v.err, NoErr, FALSE, 0, 0)}
    ELSE
    LET s1 == addBlockToTree(v.st, parentBlockNode, b) IN
    IF s1.panic \/ heavierForkPanics(s1, s1.BlockMap[b])
    THEN {Returned(Panic(s1), b, NoErr, NoErr, FALSE, 0, 0)}
    ELSE IF ~heavierFork(s1, s1.BlockMap[b])
    THEN {Returned(s1, b, NoErr, NoErr, FALSE, 0, 0)}
    ELSE {Returned(Collect(r.st), b, r.err, r.firstErr, TRUE, r.rewound, r.validated)
            : r \in forkBlockchain(s1, b)}

---------------------------------------------------------------------------
(* The specification *)

GenesisNode ==
    [Block |-> Genesis, Height |-> 0, Target |-> RootTarget, Depth |-> RootDepth,
     RecentTimestamps |-> [i \in 1..RingSize |-> GenesisTimestamp],
     Children |-> <<>>, ContractTerminations |-> <<>>, MissedStorageProofs |-> <<>>]

InitState ==
    [BadBlocks |-> {}, BlockMap |-> [id \in {Genesis} |-> GenesisNode],
     CurrentBlock |-> Genesis, CurrentPath |-> [h \in {0} |-> Genesis],
     UnspentOutputs |-> <<>>, OpenContracts |-> <<>>, Heap |-> <<>>,
     panic |-> FALSE]

NoCall == [attached |-> ZeroID, err |-> NoErr, firstErr |-> NoErr, forked |-> FALSE,
           rewound |-> 0, validated |-> 0, broadcast |-> FALSE]

\* the mutex, free; Unlocked is no caller
Unlocked == 0
Callers == 1..NumCallers
NoLocals ==
    [pc |-> "idle", arg |-> ZeroID, before |-> <<>>, after |-> <<>>, err |-> NoErr,
     common |-> ZeroID, parentHistory |-> <<>>, rewoundBlocks |-> <<>>,
     validatedBlocks |-> 0, i |-> 0]
InitMutex == [holder |-> Unlocked, released |-> InitState]
InitCalls == [c \in Callers |-> NoLocals]

Init ==
    /\ s = InitState /\ now = GenesisTimestamp /\ ret = NoCall
    /\ mu = InitMutex /\ calls = InitCalls

\* a block that is too far in the future at first, and a child of it
FarBlock == Child(Genesis, 9)
OrphanBlock == Child(FarBlock, 5)

\* the blocks a peer may submit: any block on a known or a bad parent, the
\* genesis block, and an orphan
Inputs(st) ==
    {Genesis, OrphanBlock}
    \cup {Child(p, c) : p \in DOMAIN st.BlockMap \cup st.BadBlocks, c \in 1..NumChoices}

KnownBlocks(st) == DOMAIN st.BlockMap \cup st.BadBlocks

\* one whole call of State.AcceptBlock, from s.Lock() to the deferred
\* s.Unlock(): calls do not overlap (SpecLock below models the lock)
AcceptBlock(b) ==
    /\ ~s.panic
    /\ b \in KnownBlocks(s) \/ Cardinality(KnownBlocks(s)) < MaxKnown
    /\ \E r \in acceptBlock(s, b, now) : s' = r.st /\ ret' = r.ret
    /\ now' = now
    /\ UNCHANGED <<mu, calls>>

Tick ==
    /\ ~s.panic
    /\ now < MaxNow
    /\ now' = now + 1
    /\ UNCHANGED <<s, ret, mu, calls>>

Next == (\E b \in Inputs(s) : AcceptBlock(b)) \/ Tick

Spec == Init /\ [][Next]_vars

---------------------------------------------------------------------------
(* The ledger harness: addBlockToTree, integrateBlock and rewindABlock     *)
(* driven directly, as a test of the package does.  ret holds the tip      *)
(* views saved before each integration, the newest first.                  *)

LedgerStart ==
    [op |-> "start", saved |-> <<>>, expect |-> TipView(InitState), integrations |-> 0]

LedgerInit ==
    /\ s = InitState /\ now = GenesisTimestamp /\ ret = LedgerStart
    /\ mu = InitMutex /\ calls = InitCalls

\* attach a block whose header is valid to its parent
LedgerAttach(b) ==
    /\ ~s.panic
    /\ Cardinality(KnownBlocks(s)) < MaxLedger
    /\ checkMaps(s, b) = NoErr
    /\ validateHeader(s, s.BlockMap[ParentBlock(b)], b, now).err = NoErr
    /\ s' = addBlockToTree(s, s.BlockMap[ParentBlock(b)], b)
    /\ ret' = [ret EXCEPT !.op = "attach"]
    /\ UNCHANGED <<now, mu, calls>>

\* integrate a valid block on top of the tip
LedgerIntegrate(b) ==
    /\ ~s.panic
    /\ ret.integrations < MaxIntegrations
    /\ Known(s, b) /\ ParentBlock(b) = s.CurrentBlock
    /\ \E r \in integrateOutcomes(s, b) :
          /\ r.err = NoErr
          /\ s' = r.st
    /\ ret' = [ret EXCEPT !.op = "integrate", !.saved = <<TipView(s)>> \o @,
                          !.integrations = @ + 1]
    /\ UNCHANGED <<now, mu, calls>>

\* rewind the block integrated last
LedgerRewind ==
    /\ ~s.panic
    /\ ret.saved # <<>>
    /\ s' = Collect(rewindABlock(s))
    /\ ret' = [ret EXCEPT !.op = "rewind", !.saved = Tail(@), !.expect = Head(ret.saved)]
    /\ UNCHANGED <<now, mu, calls>>

LedgerNext ==
    \/ \E b \in Inputs(s) : LedgerAttach(b)
    \/ \E b \in DOMAIN s.BlockMap : LedgerIntegrate(b)
    \/ LedgerRewind

SpecLedger == LedgerInit /\ [][LedgerNext]_vars

---------------------------------------------------------------------------
(* The contract harness: the ledger harness on one longer chain, built     *)
(* from blocks without transactions, blocks that create a contract and     *)
(* blocks that prove one.                                                   *)

MaxContractBlocks == 5
MaxContractSteps == 5

ContractChoices == {5, 13, 15}
ContractInputs(st) ==
    {Child(p, c) : p \in DOMAIN st.BlockMap, c \in ContractChoices}

ContractAttach(b) ==
    /\ ~s.panic
    /\ Cardinality(KnownBlocks(s)) < MaxContractBlocks
    /\ checkMaps(s, b) = NoErr
    /\ validateHeader(s, s.BlockMap[ParentBlock(b)], b, now).err = NoErr
    /\ s' = addBlockToTree(s, s.BlockMap[ParentBlock(b)], b)
    /\ ret' = [ret EXCEPT !.op = "attach"]
    /\ UNCHANGED <<now, mu, calls>>

ContractIntegrate(b) ==
    /\ ~s.panic
    /\ ret.integrations < MaxContractSteps
    /\ Known(s, b) /\ ParentBlock(b) = s.CurrentBlock
    /\ \E r \in integrateOutcomes(s, b) :
          /\ r.err = NoErr
          /\ s' = r.st
    /\ ret' = [ret EXCEPT !.op = "integrate", !.saved = <<TipView(s)>> \o @,
                          !.integrations = @ + 1]
    /\ UNCHANGED <<now, mu, calls>>

ContractRewind ==
    /\ ~s.panic
    /\ ret.saved # <<>>
    /\ s' = Collect(rewindABlock(s))
    /\ ret' = [ret EXCEPT !.op = "rewind", !.saved = Tail(@), !.expect = Head(ret.saved)]
    /\ UNCHANGED <<now, mu, calls>>

ContractNext ==
    \/ \E b \in ContractInputs(s) : ContractAttach(b)
    \/ \E b \in DOMAIN s.BlockMap : ContractIntegrate(b)
    \/ ContractRewind

SpecContract == LedgerInit /\ [][ContractNext]_vars

---------------------------------------------------------------------------
(* Concurrent calls of AcceptBlock: every goroutine runs the method step   *)
(* by step, between s.Lock() and the deferred s.Unlock().                  *)

\* sync.Mutex.Lock returns when no goroutine holds the mutex
LockGrantedAlways(m) == TRUE
LockGranted(m) == m.holder = Unlocked

Critical ==
    {"checking", "attaching", "rewinding", "integrating", "undoing", "restoring",
     "unlocking"}

\* the blocks submitted concurrently: a valid block, a block with an invalid
\* transaction and a block with an early timestamp, on every parent
LockChoices == {1, 5, 14}
LockInputs(st) ==
    {Genesis} \cup {Child(p, c) : p \in KnownBlocks(st), c \in LockChoices}

Goto(c, label) == [calls EXCEPT ![c].pc = label]

\* a goroutine calls AcceptBlock(b)
Call(c, b) ==
    /\ ~s.panic
    /\ calls[c].pc = "idle"
    /\ b \in KnownBlocks(s) \/ Cardinality(KnownBlocks(s)) < MaxLockKnown
    /\ calls' = [calls EXCEPT ![c] = [NoLocals EXCEPT !.pc = "waiting", !.arg = b]]
    /\ UNCHANGED <<s, now, ret, mu>>

\* s.Lock()
Lock(c) ==
    /\ ~s.panic
    /\ calls[c].pc = "waiting"
    /\ LockGranted(mu)
    /\ mu' = [mu EXCEPT !.holder = c]
    /\ calls' = [calls EXCEPT ![c].pc = "checking", ![c].before = s]
    /\ UNCHANGED <<s, now, ret>>

\* s.checkMaps and s.validateHeader
CheckBlock(c) ==
    /\ ~s.panic
    /\ calls[c].pc = "checking"
    /\ LET b == calls[c].arg
           e1 == checkMaps(s, b)
       IN  IF e1 # NoErr
           THEN /\ calls' = [calls EXCEPT ![c].pc = "unlocking", ![c].err = e1]
                /\ s' = s
           ELSE LET v == validateHeader(s, s.BlockMap[ParentBlock(b)], b, now)
                IN  /\ s' = v.st
                    /\ calls' = [calls EXCEPT
                            ![c].pc = IF v.err # NoErr THEN "unlocking" ELSE "attaching",
                            ![c].err = v.err]
    /\ UNCHANGED <<now, ret, mu>>

\* s.addBlockToTree, s.heavierFork and the first loop of forkBlockchain
AttachBlock(c) ==
    /\ ~s.panic
    /\ calls[c].pc = "attaching"
    /\ LET b == calls[c].arg
           s1 == IF Known(s, ParentBlock(b))
                 THEN addBlockToTree(s, s.BlockMap[ParentBlock(b)], b)
                 ELSE Panic(s)
           bad == s1.panic \/ ~Known(s1, b) \/ heavierForkPanics(s1, s1.BlockMap[b])
           f == findCommonParent(s1, b, <<>>)
       IN  IF bad THEN s' = Panic(s1) /\ calls' = calls
           ELSE IF ~heavierFork(s1, s1.BlockMap[b])
           THEN s' = s1 /\ calls' = Goto(c, "unlocking")
           ELSE IF f.panic THEN s' = Panic(s1) /\ calls' = calls
           ELSE /\ s' = s1
                /\ calls' = [calls EXCEPT ![c].pc = "rewinding",
                                          ![c].common = f.node,
                                          ![c].parentHistory = f.parentHistory]
    /\ UNCHANGED <<now, ret, mu>>

\* forkBlockchain, one turn of the second loop
RewindBlock(c) ==
    /\ ~s.panic
    /\ calls[c].pc = "rewinding"
    /\ IF s.CurrentBlock = calls[c].common
       THEN /\ s' = s
            /\ calls' = [calls EXCEPT ![c].pc = "integrating",
                                      ![c].i = Len(calls[c].parentHistory)]
       ELSE /\ s' = rewindABlock(s)
            /\ calls' = [calls EXCEPT ![c].rewoundBlocks = Append(@, s.CurrentBlock)]
    /\ UNCHANGED <<now, ret, mu>>

\* forkBlockchain, one turn of the third loop, invalidateNode included
IntegrateBlock(c) ==
    /\ ~s.panic
    /\ calls[c].pc = "integrating"
    /\ LET i == calls[c].i
           id == calls[c].parentHistory[i]
       IN  IF i = 0 THEN s' = s /\ calls' = Goto(c, "unlocking")
           ELSE IF ~Known(s, id) THEN s' = Panic(s) /\ calls' = calls
           ELSE \E r \in integrateOutcomes(s, id) :
                   IF r.err = NoErr \/ r.st.panic
                   THEN /\ s' = r.st
                        /\ calls' = [calls EXCEPT ![c].i = i - 1,
                                                  ![c].validatedBlocks = @ + 1]
                   ELSE /\ s' = invalidateNode(r.st, id)
                        /\ calls' = [calls EXCEPT ![c].pc = "undoing", ![c].err = r.err]
    /\ UNCHANGED <<now, ret, mu>>

\* forkBlockchain, one turn of the loop that rewinds the validated blocks
UndoBlock(c) ==
    /\ ~s.panic
    /\ calls[c].pc = "undoing"
    /\ IF calls[c].validatedBlocks = 0
       THEN /\ s' = s
            /\ calls' = [calls EXCEPT ![c].pc = "restoring",
                                      ![c].i = Len(calls[c].rewoundBlocks)]
       ELSE /\ s' = rewindABlock(s)
            /\ calls' = [calls EXCEPT ![c].validatedBlocks = @ - 1]
    /\ UNCHANGED <<now, ret, mu>>

\* forkBlockchain, one turn of the loop that integrates the rewound blocks
RestoreBlock(c) ==
    /\ ~s.panic
    /\ calls[c].pc = "restoring"
    /\ LET i == calls[c].i
           id == calls[c].rewoundBlocks[i]
       IN  IF i = 0 THEN s' = s /\ calls' = Goto(c, "unlocking")
           ELSE IF ~Known(s, id) THEN s' = Panic(s) /\ calls' = calls
           ELSE \E r \in integrateOutcomes(s, id) :
                   /\ s' = IF r.err # NoErr THEN Panic(r.st) ELSE r.st
                   /\ calls' = [calls EXCEPT ![c].i = i - 1, ![c].err = r.err]
    /\ UNCHANGED <<now, ret, mu>>

\* the return of AcceptBlock and the deferred s.Unlock()
Unlock(c) ==
    /\ ~s.panic
    /\ calls[c].pc = "unlocking"
    /\ s' = Collect(s)
    /\ mu' = [holder |-> Unlocked, released |-> s']
    /\ calls' = [calls EXCEPT ![c].pc = "returned", ![c].after = s']
    /\ UNCHANGED <<now, ret>>

\* the caller has the result
Return(c) ==
    /\ calls[c].pc = "returned"
    /\ calls' = [calls EXCEPT ![c] = NoLocals]
    /\ UNCHANGED <<s, now, ret, mu>>

LockNext ==
    \E c \in Callers :
        \/ \E b \in LockInputs(s) : Call(c, b)
        \/ Lock(c)
        \/ CheckBlock(c)
        \/ AttachBlock(c)
        \/ RewindBlock(c)
        \/ IntegrateBlock(c)
        \/ UndoBlock(c)
        \/ RestoreBlock(c)
        \/ Unlock(c)
        \/ Return(c)

SpecLock == Init /\ [][LockNext]_vars

\* C3: after integrateBlock and then rewindABlock the tip view (CurrentBlock,
\* CurrentPath, UnspentOutputs, OpenContracts) is the one saved before the
\* integration, for every sequence of valid blocks and rewinds in reverse
\* order.
ApplyReverseRoundTrip ==
    (ret.op = "rewind" /\ ~s.panic) => TipView(s) = ret.expect

\* C7: a goroutine is between Lock and Unlock only as the holder of the mutex,
\* so at most one is; the State changes only while the mutex is held; the
\* State a call finds on locking is the one the previous holder released; and
\* what a call leaves and returns is a result of running it alone on the State
\* it found.
LockSerializesCalls ==
    /\ \A c \in Callers : calls[c].pc \in Critical =>
          mu.holder = c /\ calls[c].before = mu.released
    /\ mu.holder = Unlocked => s = mu.released
    /\ \A c \in Callers : calls[c].pc = "returned" =>
          \E r \in acceptBlock(calls[c].before, calls[c].arg, now) :
              r.st = calls[c].after /\ r.ret.err = calls[c].err

\* C7 witness: a call has returned from a failed reorg that rewound a block,
\* while the other goroutine waits for the mutex
ReorgWhileOtherWaits ==
    \E c, d \in Callers :
        /\ calls[c].pc = "returned" /\ Len(calls[c].rewoundBlocks) >= 1
        /\ calls[c].after.BadBlocks # calls[c].before.BadBlocks
        /\ calls[d].pc = "waiting"

---------------------------------------------------------------------------
(* Properties of AcceptBlock.  A property of "every call" is stated over   *)
(* every block a peer can submit in the current state and every result the *)
(* call can have: acceptBlock(s, b, now) is what the action AcceptBlock(b) *)
(* installs.                                                               *)

HeaderErrors == {ErrFuture, ErrEarly, ErrMerkle, ErrTarget}
InPath(st, b) == \E h \in DOMAIN st.CurrentPath : st.CurrentPath[h] = b

\* C1: a call that enters forkBlockchain returns either with the new block as
\* the tip, or with CurrentBlock, CurrentPath, UnspentOutputs and OpenContracts
\* equal to their values before the call.
ReorgAtomicity ==
    \A b \in Inputs(s) : \A r \in acceptBlock(s, b, now) :
        (r.ret.forked /\ ~r.st.panic) =>
            \/ r.st.CurrentBlock = b
            \/ TipView(r.st) = TipView(s)

\* C2: when a block of the new fork fails integration, AcceptBlock returns
\* that first integration error, whatever the number of validated and of
\* rewound blocks.
FirstIntegrationErrorReturned ==
    \A b \in Inputs(s) : \A r \in acceptBlock(s, b, now) :
        (r.ret.firstErr # NoErr /\ ~r.st.panic) => r.ret.err = r.ret.firstErr

\* C4: no call removes an ID from BadBlocks; a call with a block of BadBlocks
\* returns an error and neither adds the block to BlockMap nor puts it on the
\* current path, whatever its parent; no bad block is in BlockMap.
BadBlocksAbsorbing ==
    /\ ~s.panic => s.BadBlocks \cap DOMAIN s.BlockMap = {}
    /\ \A b \in Inputs(s) : \A r \in acceptBlock(s, b, now) :
          /\ s.BadBlocks \subseteq r.st.BadBlocks
          /\ b \in s.BadBlocks =>
                /\ r.ret.err # NoErr
                /\ b \notin DOMAIN r.st.BlockMap
                /\ ~InPath(r.st, b)

\* C4 witness: a block whose integration failed was submitted again, its
\* parent still known
BadBlockResubmitted ==
    /\ ret.err = ErrKnownInvalid
    /\ \E b \in s.BadBlocks : TxKind(b) = "bad" /\ Known(s, ParentBlock(b))

\* the surpass rule in the words of the specification: the weight 1/Depth of
\* the node exceeds the weight of the tip by more than SurpassThreshold times
\* the weight 1/Target of the tip's block
OutweighsTip(st, id) ==
    LET n == st.BlockMap[id].Depth
        d == st.BlockMap[st.CurrentBlock].Depth
        g == st.BlockMap[st.CurrentBlock].Target
    IN  SurpassThresholdDen * d * g
            > n * (SurpassThresholdDen * g + SurpassThresholdNum * d)

\* C5: after a successful call no node of BlockMap out-weighs the tip under
\* the surpass rule.
HeaviestKnownTip ==
    (ret.err = NoErr /\ ~s.panic) =>
        \A id \in DOMAIN s.BlockMap : ~OutweighsTip(s, id)

\* C5 witness: a successful call moved the tip to another fork, whose old
\* blocks stay in BlockMap
TipMovedToHeavierFork ==
    /\ ret.err = NoErr /\ ret.forked /\ ret.rewound >= 1 /\ ret.firstErr = NoErr
    /\ s.CurrentBlock = ret.attached
    /\ Cardinality(DOMAIN s.BlockMap) >= 4

\* C6: no call, successful or failing, leaves a tip whose Depth is
\* numerically greater than the Depth of the tip before it.
TipDepthNeverGrows ==
    \A b \in Inputs(s) : \A r \in acceptBlock(s, b, now) :
        ~r.st.panic => Depth(r.st) <= Depth(s)

\* C6 witness: a reorg failed after rewinding, and the tip is below genesis
FailedReorgAfterRewind ==
    /\ ret.forked /\ ret.rewound >= 1 /\ ret.firstErr # NoErr
    /\ Depth(s) < RootDepth

\* C8: a block of BadBlocks, a block of BlockMap and a block whose parent is
\* not in BlockMap are rejected with three distinct errors, looked for in that
\* order, and the engine is unchanged: an orphan is not stored.
DeduplicationFirst ==
    \A b \in Inputs(s) : \A r \in acceptBlock(s, b, now) :
        LET dup == CASE b \in s.BadBlocks -> ErrKnownInvalid
                     [] b \in DOMAIN s.BlockMap -> ErrAlreadyKnown
                     [] ParentBlock(b) \notin DOMAIN s.BlockMap -> ErrOrphan
                     [] OTHER -> NoErr
        IN  /\ dup # NoErr => r.ret.err = dup /\ r.st = s
            /\ dup = NoErr => r.ret.err \notin {ErrKnownInvalid, ErrAlreadyKnown, ErrOrphan}

\* C8 witness: the three rejections were possible at once (a bad block whose
\* parent is gone, the known genesis block without a parent, an orphan) and
\* the last call was one of them
DuplicatesRejected ==
    /\ ret.err = ErrKnownInvalid
    /\ \E b \in s.BadBlocks : ~Known(s, ParentBlock(b))
    /\ checkMaps(s, Genesis) = ErrAlreadyKnown
    /\ checkMaps(s, OrphanBlock) = ErrOrphan

\* C9: a header rejection leaves BlockMap and the tip view as they were; the
\* block joins BadBlocks when the error is the early timestamp or the Merkle
\* root, and BadBlocks is unchanged when the error is the target.
HeaderRejectionMarksBad ==
    \A b \in Inputs(s) : \A r \in acceptBlock(s, b, now) :
        r.ret.err \in HeaderErrors =>
            /\ r.st.BlockMap = s.BlockMap
            /\ TipView(r.st) = TipView(s)
            /\ r.ret.err \in {ErrEarly, ErrMerkle} => r.st.BadBlocks = s.BadBlocks \cup {b}
            /\ r.ret.err = ErrTarget => r.st.BadBlocks = s.BadBlocks /\ b \notin s.BadBlocks

\* C9 witness: blocks were marked bad for both reasons, and the last call was
\* a rejection for the target
HeaderRejectionsSeen ==
    /\ ret.err = ErrTarget
    /\ \E b \in s.BadBlocks :
          MedianTimestamp(s.BlockMap[Genesis].RecentTimestamps) > Timestamp(b)
    /\ \E b \in s.BadBlocks :
          /\ Timestamp(b) = GenesisTimestamp + 1
          /\ MerkleRoot(b) # expectedTransactionMerkleRoot(b)

\* the header checks that do not read the clock
HeaderValidButClock(st, b) ==
    /\ checkMaps(st, b) = NoErr
    /\ MedianTimestamp(st.BlockMap[ParentBlock(b)].RecentTimestamps) <= Timestamp(b)
    /\ MerkleRoot(b) = expectedTransactionMerkleRoot(b)
    /\ st.BlockMap[ParentBlock(b)].Target >= HashValue(b)

\* C10: a rejection for a timestamp too far in the future changes nothing,
\* BadBlocks included; the same block, its header valid otherwise, passes
\* header validation and is attached once the clock has advanced to
\* Timestamp - FutureThreshold.
FutureBlockAcceptedLater ==
    \A b \in Inputs(s) : \A r \in acceptBlock(s, b, now) :
        r.ret.err = ErrFuture =>
            /\ r.st = s
            /\ b \notin r.st.BadBlocks
            /\ HeaderValidButClock(s, b) =>
                  \A x \in acceptBlock(s, b, Timestamp(b) - FutureThreshold) :
                      x.ret.attached = b /\ x.ret.err \notin HeaderErrors

\* C10 witness: the clock has advanced, and the last call attached a block
\* that the same engine rejected as too far in the future one tick earlier
FutureBlockAccepted ==
    /\ now > GenesisTimestamp
    /\ ret.attached # ZeroID /\ ret.err = NoErr
    /\ Known(s, ret.attached)
    /\ Timestamp(ret.attached) - (now - 1) > FutureThreshold

---------------------------------------------------------------------------
(* Properties of integrateBlock, stated over every attached child of the   *)
(* tip and every result integrateBlock can have on it.                     *)

\* the blocks integrateBlock can be given on the current tip
Integrable(st) == {b \in DOMAIN st.BlockMap : ParentBlock(b) = st.CurrentBlock}
\* the miner fees of all transactions of a block
BlockFees(b) ==
    SumSeq([k \in 1..Len(Transactions(b)) |-> SumSeq(Transactions(b)[k].MinerFees)])
MinerPayouts(st) == {o \in DOMAIN st.UnspentOutputs : o[1] = "subsidy"}

\* C11: a successful integrateBlock leaves one new miner payout at most, the
\* one at the block's SubsidyID, worth 1000 plus the miner fees of the block
\* and payable to its miner address; the block is the tip, the height is one
\* more than before and CurrentPath at that height is the block.
MinerPayoutAndTip ==
    (~s.panic /\ ~NilTip(s)) =>
        \A b \in Integrable(s) : \A r \in integrateOutcomes(s, b) :
            (r.err = NoErr /\ ~r.st.panic) =>
                /\ SubsidyID(b) \in DOMAIN r.st.UnspentOutputs
                /\ r.st.UnspentOutputs[SubsidyID(b)]
                      = [Value |-> 1000 + BlockFees(b), SpendHash |-> MinerAddress(b)]
                /\ MinerPayouts(r.st) \ MinerPayouts(s) \subseteq {SubsidyID(b)}
                /\ r.st.CurrentBlock = b
                /\ Height(r.st) = Height(s) + 1
                /\ PathAt(r.st, Height(r.st)) = b

\* C11 witness: a block with a fee-paying transaction was integrated at
\* height 2, and its payout is there
FeePayingBlockIntegrated ==
    /\ ret.op = "integrate" /\ ~s.panic
    /\ TxKind(s.CurrentBlock) = "contract"
    /\ Height(s) = 2
    /\ s.UnspentOutputs[SubsidyID(s.CurrentBlock)].Value = 1010

\* C12: a call whose own block fails integration on an invalid transaction
\* returns an error, leaves CurrentBlock, CurrentPath, UnspentOutputs and
\* OpenContracts as they were before the call, and has the block in BadBlocks.
InvalidTransactionRollsBack ==
    \A b \in Inputs(s) : \A r \in acceptBlock(s, b, now) :
        (r.ret.firstErr # NoErr /\ ~r.st.panic /\ ParentBlock(b) \notin r.st.BadBlocks) =>
            /\ r.ret.err # NoErr
            /\ TipView(r.st) = TipView(s)
            /\ b \in r.st.BadBlocks

\* the contracts of st for which b carries no storage proof
Unproven(st, b) ==
    {cid \in DOMAIN st.OpenContracts :
        \A k \in 1..Len(Transactions(b)) :
            \A j \in 1..Len(Transactions(b)[k].StorageProofs) :
                Transactions(b)[k].StorageProofs[j] # cid}

\* the window of the contract oc rolls over at height h
RollsOver(oc, h) ==
    /\ h > oc.FileContract.Start
    /\ (h - oc.FileContract.Start) % oc.FileContract.ChallengeFrequency = 0

\* C20: integrating a block evaluates the windows at the height of that block:
\* every open contract whose window rolls over there unsatisfied gets a
\* missed-proof output, derived from the contract and that height, of
\* min(MissedProofPayout, FundsRemaining) to the missed-proof address; the
\* MissedStorageProof is on the undo log of the block's node and the log of
\* the parent's node is as before; the funds are debited, the failures
\* counted and WindowSatisfied is false after every rollover.
MaintenanceAtNewHeight ==
    (~s.panic /\ ~NilTip(s)) =>
        \A b \in Integrable(s) : \A r \in integrateOutcomes(s, b) :
            (r.err = NoErr /\ ~r.st.panic) =>
                LET h == HeightOf(b) IN
                /\ r.st.BlockMap[s.CurrentBlock].MissedStorageProofs
                      = s.BlockMap[s.CurrentBlock].MissedStorageProofs
                /\ \A cid \in Unproven(s, b) :
                      LET oc == ContractAt(s, cid)
                          id == StorageProofOutputID(cid, h, FALSE)
                          payout == Min(oc.FileContract.MissedProofPayout,
                                        oc.FundsRemaining)
                      IN  RollsOver(oc, h) =>
                            /\ cid \in DOMAIN r.st.OpenContracts
                                  => ~ContractAt(r.st, cid).WindowSatisfied
                            /\ ~oc.WindowSatisfied =>
                                  /\ id \in DOMAIN r.st.UnspentOutputs
                                  /\ r.st.UnspentOutputs[id]
                                        = [Value |-> payout,
                                           SpendHash |-> oc.FileContract.MissedProofAddress]
                                  /\ [OutputID |-> id, ContractID |-> cid]
                                        \in SeqToSet(r.st.BlockMap[b].MissedStorageProofs)
                                  /\ cid \in DOMAIN r.st.OpenContracts =>
                                        /\ ContractAt(r.st, cid).FundsRemaining
                                              = oc.FundsRemaining - payout
                                        /\ ContractAt(r.st, cid).Failures
                                              = oc.Failures + 1

\* the termination output of the contract struct oc, if it gets one
TerminationOutput(oc) ==
    [Value |-> oc.FundsRemaining,
     SpendHash |-> IF oc.Failures = oc.FileContract.Tolerance
                   THEN oc.FileContract.MissedProofAddress
                   ELSE oc.FileContract.ValidProofAddress]
TerminationIDs(cid) ==
    {ContractTerminationOutputID(cid, TRUE), ContractTerminationOutputID(cid, FALSE)}

\* C21: after the maintenance of a block at height h a contract that was open
\* is removed from OpenContracts, and is on the ContractTerminations of the
\* block's node, iff its funds are 0, h is its End or its failures equal its
\* tolerance; with funds left its termination output pays the funds to the
\* missed-proof address if failures = tolerance and else to the valid-proof
\* address; with no funds left no termination output is created.
TerminationAtNewHeight ==
    (~s.panic /\ ~NilTip(s)) =>
        \A b \in Integrable(s) : \A r \in integrateOutcomes(s, b) :
            (r.err = NoErr /\ ~r.st.panic) =>
                \A cid \in DOMAIN s.OpenContracts :
                    LET a == s.OpenContracts[cid]
                        oc == r.st.Heap[a]
                        due == \/ oc.FundsRemaining = 0
                               \/ oc.FileContract.End = HeightOf(b)
                               \/ oc.Failures = oc.FileContract.Tolerance
                        log == SeqToSet(r.st.BlockMap[b].ContractTerminations)
                        id == ContractTerminationOutputID(
                                  cid, oc.Failures = oc.FileContract.Tolerance)
                    IN  /\ cid \notin DOMAIN r.st.OpenContracts <=> due
                        /\ a \in log <=> due
                        /\ (due /\ oc.FundsRemaining # 0) =>
                              /\ id \in DOMAIN r.st.UnspentOutputs
                              /\ r.st.UnspentOutputs[id] = TerminationOutput(oc)
                        /\ (due /\ oc.FundsRemaining = 0) =>
                              \A o \in TerminationIDs(cid) :
                                  o \in DOMAIN r.st.UnspentOutputs
                                      => o \in DOMAIN s.UnspentOutputs

\* the outputs maintenance creates: missed-proof and termination outputs
MaintenanceOutputs(st) ==
    {o \in DOMAIN st.UnspentOutputs : o[1] = "term" \/ (o[1] = "proof" /\ o[4] = 0)}

\* integrating b in st gave r, in which the contract cid missed a proof that
\* brought its failures to the tolerance or its funds to zero
MissedIntoTermination(st, r, cid) ==
    LET before == ContractAt(st, cid)
        after == r.st.Heap[st.OpenContracts[cid]]
    IN  /\ before.Failures < before.FileContract.Tolerance
        /\ before.FundsRemaining > 0
        /\ after.Failures = before.Failures + 1
        /\ \/ after.Failures = after.FileContract.Tolerance
           \/ after.FundsRemaining = 0

\* C22: a contract whose missed proof in a block brings its failures to the
\* tolerance or its funds to zero is terminated by the integration of that
\* block, and rewinding the block reopens it with the failures and the funds
\* it had before the block and leaves no missed-proof or termination output
\* that was not there before.
MissThenTerminateThenRewind ==
    (~s.panic /\ ~NilTip(s)) =>
        \A b \in Integrable(s) : \A r \in integrateOutcomes(s, b) :
            (r.err = NoErr /\ ~r.st.panic) =>
                \A cid \in DOMAIN s.OpenContracts :
                    MissedIntoTermination(s, r, cid) =>
                        LET w == rewindABlock(r.st) IN
                        /\ cid \notin DOMAIN r.st.OpenContracts
                        /\ ~w.panic
                        /\ cid \in DOMAIN w.OpenContracts
                        /\ ContractAt(w, cid).Failures = ContractAt(s, cid).Failures
                        /\ ContractAt(w, cid).FundsRemaining
                              = ContractAt(s, cid).FundsRemaining
                        /\ MaintenanceOutputs(w) \subseteq MaintenanceOutputs(s)

\* C23: every contract of OpenContracts has at most as many failures as its
\* tolerance and non-negative funds.  Failures is an unsigned counter, held
\* here as the integer it is congruent to: a negative value stands for the
\* wrapped one, which exceeds every tolerance.
OpenContractBounds ==
    ~s.panic =>
        \A cid \in DOMAIN s.OpenContracts :
            /\ ContractAt(s, cid).Failures \in 0..ContractAt(s, cid).FileContract.Tolerance
            /\ ContractAt(s, cid).FundsRemaining >= 0

\* the undo log of a node
UndoLog(st, id) ==
    <<st.BlockMap[id].ContractTerminations, st.BlockMap[id].MissedStorageProofs>>
NoRepeats(q) == \A i, j \in 1..Len(q) : q[i] = q[j] => i = j

\* C24: the undo log of a node is filled when the node is applied and used up
\* when it is rewound: a node that is not applied (it is not the tip or one of
\* its ancestors) carries no entries, and no log holds an entry twice.
UndoLogUsedOnce ==
    ~s.panic =>
        \A id \in DOMAIN s.BlockMap :
            /\ id \notin AncestorsOf(s.CurrentBlock) => UndoLog(s, id) = <<<<>>, <<>>>>
            /\ NoRepeats(s.BlockMap[id].ContractTerminations)
            /\ NoRepeats(s.BlockMap[id].MissedStorageProofs)

---------------------------------------------------------------------------
(* Fork choice and the current path *)

\* the State with the header-valid block b attached, before the fork choice
Attached(st, b) == addBlockToTree(st, st.BlockMap[ParentBlock(b)], b)
HeaderValid(st, b, clock) ==
    /\ checkMaps(st, b) = NoErr
    /\ validateHeader(st, st.BlockMap[ParentBlock(b)], b, clock).err = NoErr

\* C13: a call with a header-valid block that does not out-weigh the tip
\* under the surpass rule returns nil; the block is in BlockMap and not in
\* CurrentPath; CurrentBlock, CurrentPath, UnspentOutputs and OpenContracts
\* are unchanged.
LighterBlockOnlyAttached ==
    ~s.panic =>
        \A b \in Inputs(s) :
            (HeaderValid(s, b, now) /\ ~OutweighsTip(Attached(s, b), b)) =>
                \A r \in acceptBlock(s, b, now) :
                    /\ r.ret.err = NoErr /\ ~r.st.panic
                    /\ Known(r.st, b)
                    /\ ~InPath(r.st, b)
                    /\ TipView(r.st) = TipView(s)

\* C13 witness: the last call attached a sibling of the tip X of G <- X and
\* left the tip alone
SiblingOfTipAttached ==
    /\ ret.err = NoErr /\ ret.attached # ZeroID /\ ~ret.forked
    /\ Known(s, ret.attached)
    /\ s.CurrentBlock # ret.attached
    /\ ParentBlock(s.CurrentBlock) = Genesis /\ ParentBlock(ret.attached) = Genesis

\* C14: after a reorg in which every block of the new fork integrated, the
\* tip is the new block; CurrentPath holds exactly the ancestors of the new
\* block, each at its height; the miner payout of every rewound block of the
\* old fork is absent from UnspentOutputs and that of the new tip is present.
ReorgInstallsNewFork ==
    ~s.panic =>
        \A b \in Inputs(s) : \A r \in acceptBlock(s, b, now) :
            (r.ret.forked /\ r.ret.firstErr = NoErr /\ ~r.st.panic) =>
                /\ r.st.CurrentBlock = b
                /\ DOMAIN r.st.CurrentPath = 0..HeightOf(b)
                /\ \A h \in 0..HeightOf(b) : PathAt(r.st, h) = AncestorAt(b, h)
                /\ \A x \in AncestorsOf(s.CurrentBlock) \ AncestorsOf(b) :
                      SubsidyID(x) \notin DOMAIN r.st.UnspentOutputs
                /\ SubsidyID(b) \in DOMAIN r.st.UnspentOutputs

\* C15: every entry of CurrentPath is a node of BlockMap, and so is every
\* block from it up to the genesis block.
CurrentPathResolves ==
    ~s.panic =>
        \A h \in DOMAIN s.CurrentPath :
            AncestorsOf(s.CurrentPath[h]) \subseteq DOMAIN s.BlockMap

\* C15 witness: a reorg failed, a subtree was invalidated and a block was
\* rewound and restored
PathAfterFailedReorg ==
    /\ ret.forked /\ ret.firstErr # NoErr /\ ret.rewound >= 1
    /\ Cardinality(s.BadBlocks) >= 2
    /\ DOMAIN s.CurrentPath # {}

\* the nodes of the block tree at and below id
Subtree(st, id) == {x \in DOMAIN st.BlockMap : id \in AncestorsOf(x)}

\* C25: invalidateNode moves the node and every node below it from BlockMap
\* to BadBlocks and leaves CurrentBlock, CurrentPath, UnspentOutputs and
\* OpenContracts alone; the blocks a failed reorg invalidates are a subtree
\* closed under descendants, gone from BlockMap, and none of them is on the
\* tip path the call leaves behind.
InvalidateMovesSubtree ==
    ~s.panic =>
        /\ \A id \in DOMAIN s.BlockMap :
              LET r == invalidateNode(s, id) IN
              /\ DOMAIN r.BlockMap = DOMAIN s.BlockMap \ Subtree(s, id)
              /\ r.BadBlocks = s.BadBlocks \cup Subtree(s, id)
              /\ \A x \in DOMAIN r.BlockMap : r.BlockMap[x] = s.BlockMap[x]
              /\ TipView(r) = TipView(s)
        /\ \A b \in Inputs(s) : \A r \in acceptBlock(s, b, now) :
              (r.ret.forked /\ r.ret.firstErr # NoErr /\ ~r.st.panic) =>
                  LET bad == r.st.BadBlocks \ s.BadBlocks IN
                  /\ b \in bad
                  /\ bad \cap DOMAIN r.st.BlockMap = {}
                  /\ \A x \in DOMAIN r.st.BlockMap :
                        AncestorsOf(x) \cap bad = {}
                  /\ \A x \in bad :
                        /\ ~InPath(r.st, x)
                        /\ x \notin AncestorsOf(r.st.CurrentBlock)

\* C25 witness: the last call attached a block below a block with an invalid
\* transaction, the reorg failed at that parent, and both were invalidated
ParentAndChildInvalidated ==
    /\ ret.forked /\ ret.firstErr # NoErr /\ ~s.panic
    /\ ret.attached \in s.BadBlocks
    /\ ParentBlock(ret.attached) \in s.BadBlocks
    /\ TxKind(ParentBlock(ret.attached)) = "bad"
    /\ ~Known(s, ret.attached) /\ ~Known(s, ParentBlock(ret.attached))
    /\ Known(s, s.CurrentBlock)

\* the checks that come before a header check: the block and its parent pass
\* checkMaps and the timestamp is not too far in the future
ReachesHeaderChecks(st, b, clock) ==
    /\ checkMaps(st, b) = NoErr
    /\ Timestamp(b) - clock <= FutureThreshold

\* C18: a block whose timestamp is at most the median of its parent's recent
\* timestamps (the sorted element at index 5) is rejected as too early and
\* marked bad, the timestamp equal to the median included.
TimestampAtMostMedianRejected ==
    ~s.panic =>
        \A b \in Inputs(s) :
            (/\ ReachesHeaderChecks(s, b, now)
             /\ Timestamp(b) <= SortInts(s.BlockMap[ParentBlock(b)].RecentTimestamps)[MedianIndex + 1])
                => \A r \in acceptBlock(s, b, now) :
                      /\ r.ret.err = ErrEarly
                      /\ b \in r.st.BadBlocks
                      /\ ~Known(r.st, b)

\* C19: a block that passes the timestamp and merkle checks and whose ID is
\* greater than or equal to the target of its parent is rejected for missing
\* the target, the ID equal to the target included, and is not marked bad.
IDAtLeastTargetRejected ==
    ~s.panic =>
        \A b \in Inputs(s) :
            (/\ ReachesHeaderChecks(s, b, now)
             /\ Timestamp(b) > SortInts(s.BlockMap[ParentBlock(b)].RecentTimestamps)[MedianIndex + 1]
             /\ MerkleRoot(b) = expectedTransactionMerkleRoot(b)
             /\ HashValue(b) >= s.BlockMap[ParentBlock(b)].Target)
                => \A r \in acceptBlock(s, b, now) :
                      /\ r.ret.err = ErrTarget
                      /\ b \notin r.st.BadBlocks
                      /\ ~Known(r.st, b)

\* rationals with positive denominators, as <<numerator, denominator>>
RatInv(n) == <<1, n>>
RatAdd(x, y) == <<x[1] * y[2] + y[1] * x[2], x[2] * y[2]>>
RatMul(x, y) == <<x[1] * y[1], x[2] * y[2]>>
RatGreater(x, y) == x[1] * y[2] > y[1] * x[2]

\* the surpass rule of the specification on the Depth n of a node and the
\* Depth and Target of the tip
SurpassRequired(tip) ==
    RatAdd(RatInv(tip.Depth),
           RatMul(<<SurpassThresholdNum, SurpassThresholdDen>>, RatInv(tip.Target)))

\* Depths and Targets around those of the nodes at height 2, where a node can
\* be heavier than the tip by less than the threshold
SampleTips ==
    {[GenesisNode EXCEPT !.Depth = d, !.Target = g] :
        d \in 476..477, g \in {RootTarget - 1, RootTarget, RootTarget + 1}}
SampleNodes == {[GenesisNode EXCEPT !.Depth = n] : n \in 462..478}
TipState(tip) == [InitState EXCEPT !.BlockMap = MapPut(@, Genesis, tip)]

\* C17: a header-valid block enters forkBlockchain iff the depth of its node,
\* read as the rational 1/Depth, is greater than the depth of the tip plus
\* 5/100 of the tip's block weight 1/Target; a node whose Depth equals the
\* tip's does not, and a sibling of the tip is such a node and leaves the tip
\* alone.
SurpassThresholdRule ==
    /\ \A tip \in SampleTips, node \in SampleNodes :
          /\ heavierFork(TipState(tip), node)
                <=> RatGreater(RatInv(node.Depth), SurpassRequired(tip))
          /\ node.Depth = tip.Depth => ~heavierFork(TipState(tip), node)
    /\ ~s.panic =>
           \A b \in Inputs(s) :
               HeaderValid(s, b, now) =>
                   LET n == Attached(s, b).BlockMap[b].Depth
                       tip == s.BlockMap[s.CurrentBlock]
                   IN  \A r \in acceptBlock(s, b, now) :
                           /\ r.ret.forked <=> RatGreater(RatInv(n), SurpassRequired(tip))
                           /\ n = tip.Depth => ~r.ret.forked
                           /\ (s.CurrentBlock # Genesis
                                   /\ ParentBlock(b) = ParentBlock(s.CurrentBlock)) =>
                                 /\ n = tip.Depth
                                 /\ r.st.CurrentBlock = s.CurrentBlock

\* C17 witness: at height 2 the last call attached a node of the tip's Depth
\* and did not reorganise
EqualDepthNoReorg ==
    /\ ret.attached # ZeroID /\ ~ret.forked /\ ret.err = NoErr
    /\ Known(s, ret.attached)
    /\ Height(s) = 2
    /\ ret.attached # s.CurrentBlock
    /\ s.BlockMap[ret.attached].Depth = Depth(s)

---------------------------------------------------------------------------
(* Host announcements: CreateAnnouncement and DecodeAnnouncement.

   Byte strings are sequences over Byte.  The widths are scaled down: a
   Specifier is 2 symbols (16 bytes in the source), a length prefix is 1
   symbol (8 bytes), a public key 1 symbol (32 bytes) and a signature 2
   symbols (64 bytes).  The encoding and crypto packages are not part of the
   sources; they are modelled by what they do: Marshal writes fixed-size
   arrays raw and slices behind a length prefix, the decoder fails on short
   input, and a signature verifies exactly when it was made over the same
   hash by the secret key of the public key. *)

Byte == 0..2
PrefixHostAnnouncement == <<1, 2>>
PrefixOther == <<1, 1>>
SignatureEd25519 == <<2, 1>>
SignatureEntropy == <<0, 0>>
ZeroPublicKey == <<0>>
ZeroSignature == <<0, 0>>
ZeroSiaPublicKey == [Algorithm |-> <<0, 0>>, Key |-> <<>>]

ErrAnnNotAnnouncement == "provided data does not form a recognized host announcement"
ErrAnnUnrecognizedSignature == "the signature provided in the host announcement is not recognized"
ErrDecode == "could not decode"
ErrInvalidSignature == "invalid signature"

\* crypto.GenerateKeyPair: the key pairs that exist
KeyPairs == {[sk |-> 1, pk |-> <<1>>], [sk |-> 2, pk |-> <<2>>]}

\* crypto.HashBytes
RECURSIVE HashBytes(_)
HashBytes(bs) ==
    IF bs = <<>> THEN 0
    ELSE (2 * HashBytes(SubSeq(bs, 1, Len(bs) - 1)) + bs[Len(bs)] + 1) % 3

\* crypto.SignHash and crypto.VerifyHash
SignHash(h, sk) == <<(h + sk) % 3, (h * sk) % 3>>
VerifyHash(h, pk, sig) ==
    IF \E kp \in KeyPairs : kp.pk = pk /\ SignHash(h, kp.sk) = sig
    THEN NoErr ELSE ErrInvalidSignature

\* encoding: a fixed-size array is written raw, a slice or string behind its
\* length
WriteSlice(x) == <<Len(x)>> \o x
ReadArray(data, n) ==
    IF Len(data) < n
    THEN [err |-> ErrDecode, v |-> <<>>, rest |-> <<>>]
    ELSE [err |-> NoErr, v |-> SubSeq(data, 1, n), rest |-> SubSeq(data, n + 1, Len(data))]
ReadSlice(data) ==
    IF data = <<>>
    THEN [err |-> ErrDecode, v |-> <<>>, rest |-> <<>>]
    ELSE ReadArray(Tail(data), data[1])

\* encoding.Marshal(HostAnnouncement{...})
Marshal(ha) ==
    ha.Specifier \o WriteSlice(ha.NetAddress)
        \o ha.PublicKey.Algorithm \o WriteSlice(ha.PublicKey.Key)

\* dec.Decode(&ha)
DecodeHostAnnouncement(data) ==
    LET sp == ReadArray(data, Len(PrefixHostAnnouncement))
        na == ReadSlice(sp.rest)
        al == ReadArray(na.rest, Len(SignatureEd25519))
        ky == ReadSlice(al.rest)
        failed == sp.err # NoErr \/ na.err # NoErr \/ al.err # NoErr \/ ky.err # NoErr
    IN  [err |-> IF failed THEN ErrDecode ELSE NoErr,
         ha |-> [Specifier |-> sp.v, NetAddress |-> na.v,
                 PublicKey |-> [Algorithm |-> al.v, Key |-> ky.v]],
         rest |-> IF failed THEN <<>> ELSE ky.rest]

\* copy(pk[:], ha.PublicKey.Key) into a zeroed crypto.PublicKey
CopyKey(key) ==
    [i \in 1..Len(ZeroPublicKey) |-> IF i <= Len(key) THEN key[i] ELSE ZeroPublicKey[i]]

CreateAnnouncement(addr, pk, sk) ==
    LET annBytes == Marshal([Specifier |-> PrefixHostAnnouncement,
                             NetAddress |-> addr, PublicKey |-> pk])
    IN  annBytes \o SignHash(HashBytes(annBytes), sk)

AnnRejected(e) == [na |-> <<>>, spk |-> ZeroSiaPublicKey, err |-> e]

\* a DecodeAnnouncement that does not verify the signature
DecodeAnnouncementUnverified(fullAnnouncement) ==
    LET d == DecodeHostAnnouncement(fullAnnouncement)
    IN  IF d.err # NoErr THEN AnnRejected(d.err)
        ELSE IF d.ha.Specifier # PrefixHostAnnouncement
        THEN AnnRejected(ErrAnnNotAnnouncement)
        ELSE IF d.ha.PublicKey.Algorithm # SignatureEd25519
        THEN AnnRejected(ErrAnnUnrecognizedSignature)
        ELSE LET sg == ReadArray(d.rest, Len(ZeroSignature))
             IN  IF sg.err # NoErr THEN AnnRejected(sg.err)
                 ELSE [na |-> d.ha.NetAddress, spk |-> d.ha.PublicKey, err |-> NoErr]

DecodeAnnouncement(fullAnnouncement) ==
    LET d == DecodeHostAnnouncement(fullAnnouncement)
    IN  IF d.err # NoErr THEN AnnRejected(d.err)
        ELSE IF d.ha.Specifier # PrefixHostAnnouncement
        THEN AnnRejected(ErrAnnNotAnnouncement)
        ELSE IF d.ha.PublicKey.Algorithm # SignatureEd25519
        THEN AnnRejected(ErrAnnUnrecognizedSignature)
        ELSE LET sg == ReadArray(d.rest, Len(ZeroSignature))
             IN  IF sg.err # NoErr THEN AnnRejected(sg.err)
                 ELSE LET v == VerifyHash(HashBytes(Marshal(d.ha)),
                                          CopyKey(d.ha.PublicKey.Key), sg.v)
                      IN  IF v # NoErr THEN AnnRejected(v)
                          ELSE [na |-> d.ha.NetAddress, spk |-> d.ha.PublicKey,
                                err |-> NoErr]

(* The announcement specification: a host creates an announcement, the bytes
   may be altered or cut short on the way, and a reader decodes them. *)

MaxEdits == 1

NetAddresses == {<<>>, <<1>>, <<2, 0>>}
OfferedKeys == {[Algorithm |-> a, Key |-> k] :
                    a \in {SignatureEd25519, SignatureEntropy}, k \in {<<1>>, <<2>>}}
NoAnnouncement ==
    [op |-> "none", data |-> <<>>, edits |-> 0, out |-> AnnRejected(NoErr)]

AnnInit ==
    /\ s = InitState /\ now = GenesisTimestamp
    /\ mu = InitMutex /\ calls = InitCalls
    /\ ret = NoAnnouncement

AnnCreate(addr, pk, sk) ==
    /\ ret' = [NoAnnouncement EXCEPT !.op = "create",
                                     !.data = CreateAnnouncement(addr, pk, sk)]
    /\ UNCHANGED <<s, now, mu, calls>>

\* arbitrary data that carries another prefix
AnnForeign(addr, pk, sk) ==
    /\ ret' = [NoAnnouncement EXCEPT
                 !.op = "foreign",
                 !.data = PrefixOther
                            \o SubSeq(CreateAnnouncement(addr, pk, sk),
                                      Len(PrefixOther) + 1,
                                      Len(CreateAnnouncement(addr, pk, sk)))]
    /\ UNCHANGED <<s, now, mu, calls>>

AnnAlter(i, v) ==
    /\ ret.op \in {"create", "foreign", "edit"} /\ ret.edits < MaxEdits
    /\ i \in 1..Len(ret.data) /\ ret.data[i] # v
    /\ ret' = [ret EXCEPT !.op = "edit", !.edits = @ + 1, !.data[i] = v]
    /\ UNCHANGED <<s, now, mu, calls>>

AnnTruncate(n) ==
    /\ ret.op \in {"create", "foreign", "edit"} /\ ret.edits < MaxEdits
    /\ n < Len(ret.data)
    /\ ret' = [ret EXCEPT !.op = "edit", !.edits = @ + 1,
                          !.data = SubSeq(ret.data, 1, n)]
    /\ UNCHANGED <<s, now, mu, calls>>

AnnDecode ==
    /\ ret.op \in {"create", "foreign", "edit"}
    /\ ret' = [ret EXCEPT !.op = "decode", !.out = DecodeAnnouncement(ret.data)]
    /\ UNCHANGED <<s, now, mu, calls>>

AnnNext ==
    \/ \E addr \in NetAddresses, pk \in OfferedKeys, kp \in KeyPairs :
          AnnCreate(addr, pk, kp.sk)
    \/ \E addr \in NetAddresses, pk \in OfferedKeys, kp \in KeyPairs :
          AnnForeign(addr, pk, kp.sk)
    \/ \E i \in 1..Len(ret.data), v \in Byte : AnnAlter(i, v)
    \/ \E n \in 0..Len(ret.data) : AnnTruncate(n)
    \/ AnnDecode

SpecAnn == AnnInit /\ [][AnnNext]_vars

\* ---------------------------------------------------------------------------
\* The retarget of childTarget on its own: parent targets over the whole width
\* of the field, heights on both sides of TargetWindow, and times passed
\* around zero and around the expected time.
\* ---------------------------------------------------------------------------
SampleTargets == {1, 2, 999, 1000, 1001, 1002, 1021, 1022, MaxTarget}
SampleHeights == {1, 2, 1000, TargetWindow}
ExpectedAt(h) ==
    IF h < TargetWindow THEN BlockFrequency * h ELSE BlockFrequency * TargetWindow
SampleTimes(h) == (-1..3) \cup {ExpectedAt(h) + d : d \in -11..11}

TargetInit ==
    /\ s = InitState
    /\ now = GenesisTimestamp
    /\ ret = [op |-> "none", oldTarget |-> RootTarget, height |-> 0,
              timePassed |-> 0, expected |-> 0,
              new |-> [target |-> RootTarget, panic |-> FALSE]]
    /\ mu = InitMutex /\ calls = InitCalls

Retarget(t, h, tp) ==
    /\ ret' = [op |-> "retarget", oldTarget |-> t, height |-> h,
               timePassed |-> tp, expected |-> ExpectedAt(h),
               new |-> retarget(t, tp, ExpectedAt(h))]
    /\ UNCHANGED <<s, now, mu, calls>>

TargetNext ==
    \E t \in SampleTargets : \E h \in SampleHeights : \E tp \in SampleTimes(h) :
        Retarget(t, h, tp)

SpecTarget == TargetInit /\ [][TargetNext]_vars

\* ---------------------------------------------------------------------------
\* Two chains grown from the genesis node by childTarget and childDepth, each
\* new block timestamped on schedule or one second off it: the Target and
\* Depth of a node depend on the nodes above it and on that time only. Path
\* keeps the Target and Depth of the nodes above, genesis first.
\* ---------------------------------------------------------------------------
\* the height of the longest chain grown
MaxChainHeight == 3

RootNode == [Height |-> 0, Target |-> RootTarget, Depth |-> RootDepth, Path |-> <<>>]

GrowNode(parentNode, timePassed) ==
    LET tg == retarget(parentNode.Target, timePassed, ExpectedAt(parentNode.Height + 1))
        dp == childDepth(parentNode)
    IN  [node |-> [Height |-> parentNode.Height + 1,
                   Target |-> tg.target,
                   Depth  |-> dp.depth,
                   Path   |-> Append(parentNode.Path,
                                     [Target |-> parentNode.Target,
                                      Depth |-> parentNode.Depth])],
         panic |-> tg.panic \/ dp.panic]

DepthInit ==
    /\ s = InitState
    /\ now = GenesisTimestamp
    /\ ret = [op |-> "none", a |-> RootNode, b |-> RootNode]
    /\ mu = InitMutex /\ calls = InitCalls

GrowA(d) ==
    /\ ret.a.Height < MaxChainHeight
    /\ LET g == GrowNode(ret.a, ExpectedAt(ret.a.Height + 1) + d)
       IN  /\ ~g.panic
           /\ ret' = [ret EXCEPT !.op = "grow", !.a = g.node]
    /\ UNCHANGED <<s, now, mu, calls>>

GrowB(d) ==
    /\ ret.b.Height < MaxChainHeight
    /\ LET g == GrowNode(ret.b, ExpectedAt(ret.b.Height + 1) + d)
       IN  /\ ~g.panic
           /\ ret' = [ret EXCEPT !.op = "grow", !.b = g.node]
    /\ UNCHANGED <<s, now, mu, calls>>

DepthNext ==
    \/ \E d \in -1..1 : GrowA(d)
    \/ \E d \in -1..1 : GrowB(d)

SpecDepth == DepthInit /\ [][DepthNext]_vars

\* the signature that follows the announcement verifies against the key the
\* announcement names
SignatureVerifies(data) ==
    LET d == DecodeHostAnnouncement(data)
    IN  /\ d.err = NoErr
        /\ Len(d.rest) >= Len(ZeroSignature)
        /\ VerifyHash(HashBytes(Marshal(d.ha)), CopyKey(d.ha.PublicKey.Key),
                      SubSeq(d.rest, 1, Len(ZeroSignature))) = NoErr

\* C16: data whose announcement decodes with a prefix other than
\* PrefixHostAnnouncement yields ErrAnnNotAnnouncement; with the prefix and an
\* algorithm other than Ed25519, ErrAnnUnrecognizedSignature; the address and
\* the key are returned only if the signature verifies, and are the decoded
\* ones; and what CreateAnnouncement makes from an Ed25519 key and its secret
\* key decodes to the same address and key.
AnnouncementDecoding ==
    /\ LET d == DecodeHostAnnouncement(ret.data)
           r == DecodeAnnouncement(ret.data)
       IN  ret.op # "none" =>
             /\ (d.err = NoErr /\ d.ha.Specifier # PrefixHostAnnouncement)
                    => r = AnnRejected(ErrAnnNotAnnouncement)
             /\ (d.err = NoErr /\ d.ha.Specifier = PrefixHostAnnouncement
                    /\ d.ha.PublicKey.Algorithm # SignatureEd25519)
                    => r = AnnRejected(ErrAnnUnrecognizedSignature)
             /\ r.err = NoErr =>
                    /\ SignatureVerifies(ret.data)
                    /\ d.ha.Specifier = PrefixHostAnnouncement
                    /\ d.ha.PublicKey.Algorithm = SignatureEd25519
                    /\ r.na = d.ha.NetAddress /\ r.spk = d.ha.PublicKey
             /\ r.err # NoErr => r = AnnRejected(r.err)
             /\ ret.op = "decode" => ret.out = r
    /\ \A addr \in NetAddresses, kp \in KeyPairs :
          LET pk == [Algorithm |-> SignatureEd25519, Key |-> kp.pk]
          IN  DecodeAnnouncement(CreateAnnouncement(addr, pk, kp.sk))
                = [na |-> addr, spk |-> pk, err |-> NoErr]

\* C16 witness: an announcement with an address was created, left alone and
\* decoded to that address and an Ed25519 key
AnnouncementRoundTrip ==
    /\ ret.op = "decode" /\ ret.edits = 0
    /\ ret.out.err = NoErr
    /\ ret.out.na = <<2, 0>>
    /\ ret.out.spk = [Algorithm |-> SignatureEd25519, Key |-> <<2>>]


\* ---------------------------------------------------------------------------
\* Difficulty adjustment
\* ---------------------------------------------------------------------------
AdjustmentOf(timePassed, expected) ==
    LET raw  == <<timePassed, expected>>
        up   == <<MaxAdjustmentUpNum, MaxAdjustmentUpDen>>
        down == <<MaxAdjustmentDownNum, MaxAdjustmentDownDen>>
    IN  IF RatGreater(raw, up) THEN up
        ELSE IF RatGreater(down, raw) THEN down
        ELSE raw

\* C26: every retarget gives floor(parent target * adj), adj being
\* timePassed / expected clamped to [MaxAdjustmentDown, MaxAdjustmentUp]; the
\* new target is at most parent target * MaxAdjustmentUp, at least the whole
\* part of parent target * MaxAdjustmentDown, also for a time passed of zero
\* or less, and fits the target field.
ChildTargetAdjusted ==
    ret.op = "retarget" =>
        LET adj == AdjustmentOf(ret.timePassed, ret.expected)
        IN  /\ ~ret.new.panic
            /\ ret.new.target = (ret.oldTarget * adj[1]) \div adj[2]
            /\ ret.new.target * MaxAdjustmentUpDen
                   <= ret.oldTarget * MaxAdjustmentUpNum
            /\ ret.new.target
                   >= (ret.oldTarget * MaxAdjustmentDownNum) \div MaxAdjustmentDownDen
            /\ ret.new.target \in 0..MaxTarget


\* ---------------------------------------------------------------------------
\* Depth and cumulative work
\* ---------------------------------------------------------------------------
\* the sum of 1/target over the nodes above n, genesis left out
RECURSIVE WorkBelowGenesis(_, _)
WorkBelowGenesis(n, i) ==
    IF i <= 1 THEN <<0, 1>>
    ELSE RatAdd(WorkBelowGenesis(n, i - 1), RatInv(n.Path[i].Target))
MoreWork(a, b) ==
    IF a.Height = 0 THEN FALSE
    ELSE IF b.Height = 0 THEN TRUE
    ELSE RatGreater(WorkBelowGenesis(a, Len(a.Path)), WorkBelowGenesis(b, Len(b.Path)))
ParentOf(n) == n.Path[Len(n.Path)]
\* 1/Depth + 1/Target of x is larger than that of y: the inverses
\* Depth * Target / (Depth + Target) compared by whole part, then remainder
StoredWorkGreater(x, y) ==
    LET px == x.Depth * x.Target
        qx == x.Depth + x.Target
        py == y.Depth * y.Target
        qy == y.Depth + y.Target
    IN  \/ px \div qx < py \div qy
        \/ px \div qx = py \div qy /\ (px % qx) * qy < (py % qy) * qx

TreeAndBadBlocksDisjoint ==
    \A b \in Inputs(s) : \A r \in acceptBlock(s, b, now) :
        ~r.st.panic =>
            /\ r.st.BadBlocks \cap DOMAIN r.st.BlockMap = {}
            /\ r.st.CurrentBlock \in DOMAIN r.st.BlockMap
            /\ \A x \in r.st.BadBlocks \ s.BadBlocks :
                  /\ x \notin DOMAIN r.st.BlockMap
                  /\ x # r.st.CurrentBlock
                  /\ \A y \in DOMAIN r.st.BlockMap : ParentBlock(y) # x

\* C28 witness: the last call attached a block with an invalid transaction on
\* the tip, its integration failed, and the call returned the error with the
\* block in BadBlocks only
FailedIntegrationLeftNoNode ==
    /\ ret.forked /\ ret.err # NoErr /\ ret.rewound = 0 /\ ~s.panic
    /\ TxKind(ret.attached) = "bad"
    /\ ret.attached \in s.BadBlocks
    /\ ~Known(s, ret.attached)
    /\ Known(s, s.CurrentBlock)
    /\ s.CurrentBlock = ParentBlock(ret.attached)


\* C29: a call of AcceptBlock broadcasts its block only if the block is then
\* in BlockMap and not in BadBlocks; a block the call invalidated is not
\* broadcast, and a call that returns an error does not broadcast.
BroadcastOnlyKnownGood ==
    \A b \in Inputs(s) : \A r \in acceptBlock(s, b, now) :
        /\ r.ret.broadcast =>
              /\ b \in DOMAIN r.st.BlockMap
              /\ b \notin r.st.BadBlocks
        /\ b \in r.st.BadBlocks \ s.BadBlocks => ~r.ret.broadcast
        /\ r.ret.err # NoErr => ~r.ret.broadcast

====
